---- MODULE Spec2Model ----
(***************************************************************************)
(* UART command protocol of the POORMANs_SMU firmware                      *)
(* (uart_communication/nucleo): the receive loop of main(), the command    *)
(* dispatcher ProcessUARTCommand, and the MCP4728 (DAC) and ADS1115 (ADC)  *)
(* drivers it calls.                                                       *)
(*                                                                         *)
(* Bytes are integers 0..255 (ASCII codes); C strings are sequences of     *)
(* bytes without the terminating NUL.  Every I2C transaction and delay a   *)
(* handler issues is recorded, in order, as an event record.               *)
(***************************************************************************)
EXTENDS Integers, Sequences, FiniteSets, TLC

(***************************************************************************)
(* Bounds of the model.                                                    *)
(***************************************************************************)
\* the host sends runs of filler bytes of up to RX_SIZE + MaxOver bytes
MaxOver == 1

(***************************************************************************)
(* Program constants.                                                      *)
(***************************************************************************)
RX_SIZE == 64
NUL == 0
LF == 10
CR == 13
COMMA == 44
MCP4728_BASEADDR == 192
MCP4728_CMD_DACWRITE_SEQ == 80
MCP4728_GENERAL_WAKEUP == 9
ADS1115_ADDR_GND == 72
ADS1115_MUX_AIN0_GND == 4
ADS1115_MUX_AIN1_GND == 5
ADS1115_MUX_AIN2_GND == 6
ADS1115_MUX_AIN3_GND == 7
ADS1115_PGA_6V144 == 0
MODE_CONTINOUS == 0
MODE_SINGLE_SHOT == 1
ADS1115_DR_128SPS == 4
ADS1115_COMP_MODE_TRAD == 0
ADS1115_POL_ACTIVE_LOW == 0
ADS1115_LAT_NON_LATCHING == 0
ADS1115_QUE_DISABLE == 3
\* HAL_MAX_DELAY (0xFFFFFFFF) does not fit TLC's integers: -1 stands for it
HAL_MAX_DELAY == -1

(***************************************************************************)
(* HAL status codes.  HAL_StatusTypeDef is an enum printed with %d by the  *)
(* test_adc handler, so the numeric value matters there.                   *)
(***************************************************************************)
HAL_StatusTypeDef == {"HAL_OK", "HAL_ERROR", "HAL_BUSY", "HAL_TIMEOUT"}

StatusCode(st) ==
    CASE st = "HAL_OK" -> 0
      [] st = "HAL_ERROR" -> 1
      [] st = "HAL_BUSY" -> 2
      [] st = "HAL_TIMEOUT" -> 3

(***************************************************************************)
(* C integer conversions.                                                  *)
(***************************************************************************)
U8(x) == x % 256

U16(x) == x % 65536

\* the 16 bits read as an unsigned number
I16_Unsigned(x) == U16(x)

I16(x) == IF U16(x) >= 32768 THEN U16(x) - 65536 ELSE U16(x)

(***************************************************************************)
(* String literals of main.c, as byte sequences.                           *)
(***************************************************************************)
\* "COMM_OK"
STR_COMM_OK == <<67, 79, 77, 77, 95, 79, 75>>
\* "test_adc"
STR_TEST_ADC == <<116, 101, 115, 116, 95, 97, 100, 99>>
\* "read_adc_raw,"
STR_READ_ADC_RAW == <<114, 101, 97, 100, 95, 97, 100, 99, 95, 114, 97, 119, 44>>
\* "read_adc,"
STR_READ_ADC == <<114, 101, 97, 100, 95, 97, 100, 99, 44>>
\* "set_all,"
STR_SET_ALL == <<115, 101, 116, 95, 97, 108, 108, 44>>
\* "\r\n"
CRLF == <<CR, LF>>
\* "ERROR"
STR_ERROR == <<69, 82, 82, 79, 82>>
\* "OK:0x"
STR_OK_0X == <<79, 75, 58, 48, 120>>
\* "ERROR:I2C_FAIL:"
STR_I2C_FAIL == <<69, 82, 82, 79, 82, 58, 73, 50, 67, 95, 70, 65, 73, 76, 58>>
\* "ERROR:ADC_NOT_INIT"
STR_ADC_NOT_INIT == <<69, 82, 82, 79, 82, 58, 65, 68, 67, 95, 78, 79, 84, 95, 73, 78, 73, 84>>

(***************************************************************************)
(* libc, as main.c uses it.                                                *)
(***************************************************************************)
\* the C string that starts at index i of a byte array
RECURSIVE CStr(_, _)
CStr(buf, i) ==
    IF i \notin DOMAIN buf \/ buf[i] = NUL
    THEN <<>>
    ELSE <<buf[i]>> \o CStr(buf, i + 1)

\* the rest of s from (0-based) offset n on: the C expression  s + n
Skip(s, n) == SubSeq(s, n + 1, Len(s))

strcmp_eq(s, lit) == s = lit

strncmp_eq(s, lit, n) == Len(s) >= n /\ SubSeq(s, 1, n) = SubSeq(lit, 1, n)

\* 0-based offset of the first c in s, or -1 (NULL)
RECURSIVE strchr(_, _)
strchr(s, c) ==
    IF s = <<>> THEN -1
    ELSE IF Head(s) = c THEN 0
    ELSE LET r == strchr(Tail(s), c) IN IF r < 0 THEN -1 ELSE r + 1

isspace(c) == c \in {32, 9, 10, 11, 12, 13}

isdigit(c) == c \in 48..57

RECURSIVE SkipSpaces(_)
SkipSpaces(s) == IF s # <<>> /\ isspace(Head(s)) THEN SkipSpaces(Tail(s)) ELSE s

RECURSIVE DigitsValue(_, _)
DigitsValue(s, acc) ==
    IF s # <<>> /\ isdigit(Head(s))
    THEN DigitsValue(Tail(s), acc * 10 + (Head(s) - 48))
    ELSE acc

\* atoi: optional white space, optional sign, decimal digits; 0 when there
\* are none.  (The arguments the model feeds it stay within int.)
atoi(s) ==
    LET t == SkipSpaces(s)
    IN  IF t # <<>> /\ Head(t) = 45 THEN 0 - DigitsValue(Tail(t), 0)
        ELSE IF t # <<>> /\ Head(t) = 43 THEN DigitsValue(Tail(t), 0)
        ELSE DigitsValue(t, 0)

\* sprintf("%d")
RECURSIVE DecDigits(_)
DecDigits(n) == IF n < 10 THEN <<48 + n>> ELSE DecDigits(n \div 10) \o <<48 + (n % 10)>>

FmtD(n) == IF n < 0 THEN <<45>> \o DecDigits(0 - n) ELSE DecDigits(n)

\* sprintf("%02X") of a byte
HexDigit(d) == IF d < 10 THEN 48 + d ELSE 55 + d

Fmt02X(b) == <<HexDigit(b \div 16), HexDigit(b % 16)>>

(***************************************************************************)
(* Bit operations on non-negative integers.                                *)
(***************************************************************************)
RECURSIVE BitAnd(_, _)
BitAnd(a, b) ==
    IF a = 0 \/ b = 0 THEN 0
    ELSE 2 * BitAnd(a \div 2, b \div 2) + (IF a % 2 = 1 /\ b % 2 = 1 THEN 1 ELSE 0)

RECURSIVE BitOr(_, _)
BitOr(a, b) ==
    IF a = 0 THEN b
    ELSE IF b = 0 THEN a
    ELSE 2 * BitOr(a \div 2, b \div 2) + (IF a % 2 = 1 \/ b % 2 = 1 THEN 1 ELSE 0)

RECURSIVE Pow2(_)
Pow2(n) == IF n = 0 THEN 1 ELSE 2 * Pow2(n - 1)

\* number of significant bits of n >= 0
RECURSIVE BitLen(_)
BitLen(n) == IF n = 0 THEN 0 ELSE 1 + BitLen(n \div 2)

(***************************************************************************)
(* Bus events.  One record per HAL call a driver makes, in call order:     *)
(*   bus   "I2C1" (DAC), "I2C2" (ADC) or "SYS" (HAL_Delay)                 *)
(*   op    "Master_Transmit", "Master_Receive", "Mem_Write" or "Delay"     *)
(*   addr  the device address argument;  mem  the memory address argument  *)
(*   data  the bytes written, or the bytes a successful read returned      *)
(*   tmo   the timeout argument (the duration, for a delay)                *)
(*   st    the status the call returned; "HANG" when it never returns      *)
(*   fn    the function that made the call                                 *)
(***************************************************************************)
I2cEvent(bus, op, addr, mem, data, tmo, st, fn) ==
    [bus |-> bus, op |-> op, addr |-> addr, mem |-> mem, data |-> data,
     tmo |-> tmo, st |-> st, fn |-> fn]

HAL_Delay(ms, fn) == I2cEvent("SYS", "Delay", 0, 0, <<>>, ms, "HAL_OK", fn)

IsI2c(ev) == ev.bus \in {"I2C1", "I2C2"}

\* the I2C transactions among a handler's events
BusOnly(evs) == SelectSeq(evs, IsI2c)

(***************************************************************************)
(* MCP4728 driver (mcp4728.c).                                             *)
(***************************************************************************)
MCP4728_Write_GeneralCall(command, st) ==
    [status |-> st,
     bus |-> <<I2cEvent("I2C1", "Master_Transmit", 0, 0, <<command>>, 100, st,
                        "MCP4728_Write_GeneralCall")>>]

\* the wake-up without the HAL_Delay(5) that follows it
MCP4728_Init_NoDelay(st) == MCP4728_Write_GeneralCall(MCP4728_GENERAL_WAKEUP, st)

MCP4728_Init(st) ==
    LET r == MCP4728_Write_GeneralCall(MCP4728_GENERAL_WAKEUP, st)
    IN  IF r.status # "HAL_OK"
        THEN r
        ELSE [status |-> "HAL_OK", bus |-> r.bus \o <<HAL_Delay(5, "MCP4728_Init")>>]

\* the two frame bytes of one channel: data[i*2], data[i*2+1]
\* the upper byte taken with a shift of 4 in place of 8
DacHi_ShiftFour(value) == BitAnd(value \div 16, 15)

DacHi(value) == BitAnd(value \div 256, 15)

DacLo(value) == BitAnd(value, 255)

\* the frame with data[ch * 2 + 1] and data[ch * 2 + 2] in place of
\* data[ch * 2] and data[ch * 2 + 1]
WriteChannelFrame_ShiftedByOne(ch, value) ==
    [k \in 1..8 |->
        IF k = 2 * ch + 2 THEN DacHi(value)
        ELSE IF k = 2 * ch + 3 THEN DacLo(value)
        ELSE 0]

\* data[8] as MCP4728_WriteChannel fills it (k is the 1-based byte position)
WriteChannelFrame(ch, value) ==
    [k \in 1..8 |->
        LET i == (k - 1) \div 2
        IN  IF i = ch
            THEN (IF k % 2 = 1 THEN DacHi(value) ELSE DacLo(value))
            ELSE 0]

\* a write of the two bytes of the target channel alone
MCP4728_WriteChannel_TwoBytes(ch, value, st) ==
    [status |-> st,
     bus |-> <<I2cEvent("I2C1", "Mem_Write", MCP4728_BASEADDR, MCP4728_CMD_DACWRITE_SEQ,
                        <<DacHi(value), DacLo(value)>>, HAL_MAX_DELAY, st,
                        "MCP4728_WriteChannel")>>]

MCP4728_WriteChannel(ch, value, st) ==
    [status |-> st,
     bus |-> <<I2cEvent("I2C1", "Mem_Write", MCP4728_BASEADDR, MCP4728_CMD_DACWRITE_SEQ,
                        WriteChannelFrame(ch, value), HAL_MAX_DELAY, st,
                        "MCP4728_WriteChannel")>>]

\* the frame with the two bytes of each channel in the opposite order
SetAllChannelsFrame_LowByteFirst(values) ==
    [k \in 1..8 |->
        LET i == (k - 1) \div 2
        IN  IF k % 2 = 1 THEN DacLo(values[i + 1]) ELSE DacHi(values[i + 1])]

\* data[8] as MCP4728_SetAllChannels fills it; values is a 4-tuple (A..D)
SetAllChannelsFrame(values) ==
    [k \in 1..8 |->
        LET i == (k - 1) \div 2
        IN  IF k % 2 = 1 THEN DacHi(values[i + 1]) ELSE DacLo(values[i + 1])]

\* four bus writes, one per channel, in place of the single one
MCP4728_SetAllChannels_PerChannel(values, st) ==
    [status |-> st,
     bus |-> [i \in 1..4 |->
                I2cEvent("I2C1", "Mem_Write", MCP4728_BASEADDR, MCP4728_CMD_DACWRITE_SEQ,
                         WriteChannelFrame(i - 1, values[i]), HAL_MAX_DELAY, st,
                         "MCP4728_SetAllChannels")]]

MCP4728_SetAllChannels(values, st) ==
    [status |-> st,
     bus |-> <<I2cEvent("I2C1", "Mem_Write", MCP4728_BASEADDR, MCP4728_CMD_DACWRITE_SEQ,
                        SetAllChannelsFrame(values), HAL_MAX_DELAY, st,
                        "MCP4728_SetAllChannels")>>]

(***************************************************************************)
(* The MCP4728 device: a sequential write that was acknowledged loads the  *)
(* four input registers from the frame (upper nibble D11..D8, then D7..D0).*)
(***************************************************************************)
DacDecode(frame) ==
    [i \in 1..4 |-> BitAnd(frame[2 * i - 1], 15) * 256 + frame[2 * i]]

DacAfterEvent(codes, ev) ==
    IF ev.bus = "I2C1" /\ ev.op = "Mem_Write" /\ ev.addr = MCP4728_BASEADDR
       /\ ev.mem = MCP4728_CMD_DACWRITE_SEQ /\ ev.st = "HAL_OK" /\ Len(ev.data) = 8
    THEN DacDecode(ev.data)
    ELSE codes

RECURSIVE DacAfter(_, _)
DacAfter(codes, evs) ==
    IF evs = <<>> THEN codes
    ELSE DacAfter(DacAfterEvent(codes, Head(evs)), Tail(evs))

(***************************************************************************)
(* The ADC device as the firmware drives it: the first byte of every       *)
(* acknowledged write to its address is loaded into the address pointer    *)
(* register, which selects the register a following 2-byte read returns    *)
(* (0 conversion, 1 config, 2 low threshold, 3 high threshold).  A write   *)
(* that failed leaves the pointer where it was.                            *)
(***************************************************************************)
AdcPointerAfterEvent(ptr, ev) ==
    IF ev.bus = "I2C2" /\ ev.op = "Master_Transmit" /\ ev.addr = ADS1115_ADDR_GND * 2
       /\ ev.st = "HAL_OK" /\ Len(ev.data) >= 1
    THEN ev.data[1]
    ELSE ptr

RECURSIVE AdcPointerAfter(_, _)
AdcPointerAfter(ptr, evs) ==
    IF evs = <<>> THEN ptr
    ELSE AdcPointerAfter(AdcPointerAfterEvent(ptr, Head(evs)), Tail(evs))

(***************************************************************************)
(* ADS1115 driver (ADS1115.c).                                             *)
(***************************************************************************)
\* the packing with the PGA field one bit further left
prepareConfigFrame_PgaShiftedTwo(config) ==
    <<1,
      U8(BitOr(BitOr(config.channel * 16, config.pgaConfig * 4), config.operatingMode)),
      U8(BitOr(BitOr(BitOr(BitOr(config.dataRate * 32, config.compareMode * 16),
                           config.polarityMode * 8),
                     config.latchingMode * 4),
               config.queueComparator))>>

prepareConfigFrame(config) ==
    <<1,
      U8(BitOr(BitOr(config.channel * 16, config.pgaConfig * 2), config.operatingMode)),
      U8(BitOr(BitOr(BitOr(BitOr(config.dataRate * 32, config.compareMode * 16),
                           config.polarityMode * 8),
                     config.latchingMode * 4),
               config.queueComparator))>>

\* the object ADS1115_init fills in
ADS1115_init(hi2c, Addr, config) == [hi2c |-> hi2c, address |-> Addr, config |-> config]

\* the read that trusts the pointer to be at the conversion register already
ADS1115_getData_NoPointerWrite(pConfig, st2, st3, rd) ==
    LET r == I2cEvent(pConfig.hi2c, "Master_Receive", pConfig.address * 2, 0,
                      IF st3 = "HAL_OK" THEN rd ELSE <<0, 0>>, 50, st3, "ADS1115_getData")
    IN  IF st3 # "HAL_OK" THEN [value |-> 0, bus |-> <<r>>]
        ELSE [value |-> I16(BitOr(U16(rd[1] * 256), rd[2])), bus |-> <<r>>]

\* st2: pointer write, st3: read, rd: the two bytes the device returns
ADS1115_getData(pConfig, st2, st3, rd) ==
    LET w == I2cEvent(pConfig.hi2c, "Master_Transmit", pConfig.address * 2, 0, <<0>>,
                      50, st2, "ADS1115_getData")
        r == I2cEvent(pConfig.hi2c, "Master_Receive", pConfig.address * 2, 0,
                      IF st3 = "HAL_OK" THEN rd ELSE <<0, 0>>, 50, st3, "ADS1115_getData")
    IN  IF st2 # "HAL_OK" THEN [value |-> 0, bus |-> <<w>>]
        ELSE IF st3 # "HAL_OK" THEN [value |-> 0, bus |-> <<w, r>>]
        ELSE [value |-> I16(BitOr(U16(rd[1] * 256), rd[2])), bus |-> <<w, r>>]

\* the measurement that goes on to wait and read whatever the config write
\* returned
ADS1115_oneShotMeasure_Unchecked(pConfig, st1, st2, st3, rd) ==
    LET f == prepareConfigFrame(pConfig.config)
        bytes == <<f[1], BitOr(f[2], 128), f[3]>>
        w == I2cEvent(pConfig.hi2c, "Master_Transmit", pConfig.address * 2, 0, bytes,
                      100, st1, "ADS1115_oneShotMeasure")
        g == ADS1115_getData(pConfig, st2, st3, rd)
    IN  [value |-> g.value,
         bus |-> <<w, HAL_Delay(15, "ADS1115_oneShotMeasure")>> \o g.bus]

\* st1: config write, then as ADS1115_getData
ADS1115_oneShotMeasure(pConfig, st1, st2, st3, rd) ==
    LET f == prepareConfigFrame(pConfig.config)
        bytes == <<f[1], BitOr(f[2], 128), f[3]>>
        w == I2cEvent(pConfig.hi2c, "Master_Transmit", pConfig.address * 2, 0, bytes,
                      100, st1, "ADS1115_oneShotMeasure")
        g == ADS1115_getData(pConfig, st2, st3, rd)
    IN  IF st1 # "HAL_OK" THEN [value |-> 0, bus |-> <<w>>]
        ELSE [value |-> g.value,
              bus |-> <<w, HAL_Delay(15, "ADS1115_oneShotMeasure")>> \o g.bus]

\* the update that keeps the old config when the bus write fails
ADS1115_updateConfig_KeepOnFailure(pConfig, config, st) ==
    [obj |-> IF st = "HAL_OK" THEN [pConfig EXCEPT !.config = config] ELSE pConfig,
     bus |-> <<I2cEvent(pConfig.hi2c, "Master_Transmit", pConfig.address * 2, 0,
                        prepareConfigFrame(config), 100, st, "ADS1115_updateConfig")>>]

\* pConfig->config = config; the frame is built from the stored config and
\* the status of the transmit is dropped
ADS1115_updateConfig(pConfig, config, st) ==
    LET o == [pConfig EXCEPT !.config = config]
    IN  [obj |-> o,
         bus |-> <<I2cEvent(o.hi2c, "Master_Transmit", o.address * 2, 0,
                            prepareConfigFrame(o.config), 100, st,
                            "ADS1115_updateConfig")>>]

\* ADSWrite[] for one threshold register: the register address, then
\* (uint8_t)((value & 0xFF00) >> 8) and (uint8_t)(value & 0x00FF); the int16_t
\* value is promoted to int, of which the masks keep the low 16 bits
ThresholdFrame(reg, value) ==
    <<reg, U8(BitAnd(U16(value), 65280) \div 256), U8(BitAnd(U16(value), 255))>>

\* the thresholds written only as far as the writes succeed
ADS1115_setThresholds_StopOnFailure(pConfig, lowValue, highValue, stHi, stLo) ==
    LET hi == I2cEvent(pConfig.hi2c, "Master_Transmit", pConfig.address * 2, 0,
                       ThresholdFrame(3, highValue), 100, stHi, "ADS1115_setThresholds")
        lo == I2cEvent(pConfig.hi2c, "Master_Transmit", pConfig.address * 2, 0,
                       ThresholdFrame(2, lowValue), 100, stLo, "ADS1115_setThresholds")
    IN  [obj |-> pConfig, bus |-> IF stHi = "HAL_OK" THEN <<hi, lo>> ELSE <<hi>>]

\* stHi, stLo: what the two transmits return; neither is looked at
ADS1115_setThresholds(pConfig, lowValue, highValue, stHi, stLo) ==
    LET hi == I2cEvent(pConfig.hi2c, "Master_Transmit", pConfig.address * 2, 0,
                       ThresholdFrame(3, highValue), 100, stHi, "ADS1115_setThresholds")
        lo == I2cEvent(pConfig.hi2c, "Master_Transmit", pConfig.address * 2, 0,
                       ThresholdFrame(2, lowValue), 100, stLo, "ADS1115_setThresholds")
    IN  [obj |-> pConfig, bus |-> <<hi, lo>>]

\* ADS1115_setThresholds(pConfig, 0x0000, 0xFFFF): 0xFFFF converted to int16_t
ADS1115_setConversionReadyPin(pConfig, stHi, stLo) ==
    ADS1115_setThresholds(pConfig, 0, I16(65535), stHi, stLo)

\* configReg = pConfig->config; configReg.operatingMode = MODE_CONTINOUS;
\* the frame is built from the copy configReg, and *pConfig is left as it was
ADS1115_startContinousMode(pConfig, st) ==
    LET configReg == [pConfig.config EXCEPT !.operatingMode = MODE_CONTINOUS]
    IN  [obj |-> pConfig,
         bus |-> <<I2cEvent(pConfig.hi2c, "Master_Transmit", pConfig.address * 2, 0,
                            prepareConfigFrame(configReg), 100, st,
                            "ADS1115_startContinousMode")>>]

ADS1115_stopContinousMode(pConfig, st) ==
    LET configReg == [pConfig.config EXCEPT !.operatingMode = MODE_SINGLE_SHOT]
    IN  [obj |-> pConfig,
         bus |-> <<I2cEvent(pConfig.hi2c, "Master_Transmit", pConfig.address * 2, 0,
                            prepareConfigFrame(configReg), 100, st,
                            "ADS1115_stopContinousMode")>>]

(***************************************************************************)
(* Single-precision arithmetic of ADS1115_ReadVoltage, in integers that    *)
(* fit 32 bits.  A float is a record [neg, q, e] of value (-1)^neg*q*2^e   *)
(* with 0 <= q <= 2^24.                                                    *)
(*   6.144f = 12884902 * 2^-21 = (3145 * 4096 + 2982) * 2^-21              *)
(***************************************************************************)
F32Zero == [neg |-> FALSE, q |-> 0, e |-> 0]

F32Five == [neg |-> FALSE, q |-> 5, e |-> 0]

\* ((float)adc_value * 6.144f) / 32768.0f : the product is rounded to 24
\* bits, to nearest, ties to even; the division by 2^15 is exact
VoltageOfRaw(adc_value) ==
    LET a == IF adc_value < 0 THEN 0 - adc_value ELSE adc_value
        B == a * 2982
        H == a * 3145 + (B \div 4096)
        L == B % 4096
        \* the exact product is (H * 4096 + L) * 2^-21
        k == IF BitLen(H) > 12 THEN BitLen(H) - 12 ELSE 0
        T == (H % Pow2(k)) * 4096 + L
        Q == (H \div Pow2(k)) * 4096 + (T \div Pow2(k))
        R == T % Pow2(k)
        half == IF k = 0 THEN 1 ELSE Pow2(k - 1)
        up == k > 0 /\ (R > half \/ (R = half /\ Q % 2 = 1))
    IN  [neg |-> adc_value < 0, q |-> IF up THEN Q + 1 ELSE Q, e |-> k - 36]

F32Negative(v) == v.neg /\ v.q > 0

\* v > 5.0f, for e <= 0
F32AboveFive(v) == ~v.neg /\ (0 - v.e) <= 24 /\ v.q > 5 * Pow2(0 - v.e)

\* the clamp without its upper limit
ClampVoltage_NoUpperLimit(v) == IF F32Negative(v) THEN F32Zero ELSE v

\* the clamp of ADS1115_ReadVoltage
ClampVoltage(v) ==
    LET lo == IF F32Negative(v) THEN F32Zero ELSE v
    IN  IF F32AboveFive(lo) THEN F32Five ELSE lo

\* v * 10^4 rounded to an integer (to nearest, ties to even), for 0 <= v <= 5
TenThousandths(v) ==
    IF v.e = 0 THEN v.q * 10000
    ELSE LET t == (0 - v.e) - 4            \* v * 10^4 = q * 625 / 2^t
             qh == v.q \div 4096
             ql == v.q % 4096
             X == qh * 625 + ((ql * 625) \div 4096)
             Y == (ql * 625) % 4096
             \* q * 625 = X * 4096 + Y, to be divided by 2^(t-12) * 4096
             D == X \div Pow2(t - 12)
             rhi == X % Pow2(t - 12)
             hhi == Pow2(t - 13)
             above == rhi > hhi \/ (rhi = hhi /\ Y > 0)
             tie == rhi = hhi /\ Y = 0
         IN  IF above \/ (tie /\ D % 2 = 1) THEN D + 1 ELSE D

\* sprintf("%.4f") of a float in [0, 5]
FmtF4(v) ==
    LET d == TenThousandths(v)
        f == d % 10000
    IN  DecDigits(d \div 10000) \o <<46>> \o
        <<48 + (f \div 1000), 48 + ((f \div 100) % 10), 48 + ((f \div 10) % 10), 48 + (f % 10)>>

(***************************************************************************)
(* Outcomes of the bus transactions of one dispatched command: what the    *)
(* environment (the I2C buses and the two devices) decides.                *)
(*   dac  status of the DAC write; "HANG" when the HAL_MAX_DELAY wait      *)
(*        never ends                                                       *)
(*   st   statuses of the (up to three) ADC transactions, in call order    *)
(*   rd   the two bytes the ADC returns to a successful read               *)
(* No handler issues both DAC and ADC transactions, a failed one-shot      *)
(* sequence stops at the first failure and rd is used only by a read that  *)
(* succeeded, so the set leaves out the combinations that differ only in   *)
(* outcomes no handler can observe.                                        *)
(***************************************************************************)
ReadPairs == {<<0, 0>>, <<64, 0>>, <<255, 156>>, <<127, 255>>, <<133, 131>>}

AllOk == <<"HAL_OK", "HAL_OK", "HAL_OK">>

EnvSet ==
    {[dac |-> d, st |-> AllOk, rd |-> <<0, 0>>] :
        d \in (HAL_StatusTypeDef \ {"HAL_OK"}) \cup {"HANG"}}
    \cup {[dac |-> "HAL_OK", st |-> AllOk, rd |-> r] : r \in ReadPairs}
    \cup {[dac |-> "HAL_OK", st |-> <<"HAL_OK", "HAL_OK", x>>, rd |-> <<0, 0>>] :
            x \in HAL_StatusTypeDef \ {"HAL_OK"}}
    \cup {[dac |-> "HAL_OK", st |-> <<x, y, "HAL_OK">>, rd |-> <<0, 0>>] :
            <<x, y>> \in (HAL_StatusTypeDef \X HAL_StatusTypeDef) \ {<<"HAL_OK", "HAL_OK">>}}

(***************************************************************************)
(* ADS1115_ReadVoltage (main.c).  handle is the pointer adc_handle         *)
(* ("NULL" or "H0"), obj the ADS1115_Handle_t it points to.                *)
(***************************************************************************)
mux_settings == <<ADS1115_MUX_AIN0_GND, ADS1115_MUX_AIN1_GND,
                  ADS1115_MUX_AIN2_GND, ADS1115_MUX_AIN3_GND>>

\* the channel selected in the local copy only
SelectChannel_LocalOnly(obj, channel) == obj

\* config.channel = mux_settings[channel]; adc_handle->config = config
SelectChannel(obj, channel) ==
    [obj EXCEPT !.config = [obj.config EXCEPT !.channel = mux_settings[channel + 1]]]

ADS1115_ReadVoltage(channel, handle, obj, env) ==
    IF handle = "NULL" \/ channel > 3
    THEN [voltage |-> F32Zero, bus |-> <<>>, obj |-> obj]
    ELSE LET o == SelectChannel(obj, channel)
             m == ADS1115_oneShotMeasure(o, env.st[1], env.st[2], env.st[3], env.rd)
         IN  [voltage |-> ClampVoltage(VoltageOfRaw(m.value)), bus |-> m.bus, obj |-> o]

(***************************************************************************)
(* ProcessUARTCommand (main.c).  The result of a handler:                  *)
(*   handler  the branch of the dispatcher that ran                        *)
(*   tx       the lines handed to HAL_UART_Transmit, in order              *)
(*   bus      the bus events issued, in order                              *)
(*   obj      the ADS1115_Handle_t afterwards                              *)
(*   buf      rx_buffer afterwards                                         *)
(***************************************************************************)
Handled(handler, tx, bus, obj, buf) ==
    [handler |-> handler, tx |-> tx, bus |-> bus, obj |-> obj, buf |-> buf]

\* "1\r\n" for HAL_OK, "0\r\n" otherwise; nothing when the write never returns
DacReply(status) ==
    IF status = "HANG" THEN <<>>
    ELSE IF status = "HAL_OK" THEN <<(<<49>> \o CRLF)>>
    ELSE <<(<<48>> \o CRLF)>>

\* the COMM_OK echo without "\r\n" in its format string
HandleCommOk_NoLineEnd(obj, buf) ==
    Handled("COMM_OK", <<STR_COMM_OK>>, <<>>, obj, buf)

\* the greeting that also probes the ADC's config register
HandleCommOk_ProbesAdc(obj, buf) ==
    Handled("COMM_OK", <<(STR_COMM_OK \o CRLF)>>,
            <<I2cEvent("I2C2", "Master_Transmit", ADS1115_ADDR_GND * 2, 0, <<1>>, 100,
                       "HAL_OK", "ProcessUARTCommand")>>,
            obj, buf)

HandleCommOk(obj, buf) ==
    Handled("COMM_OK", <<(STR_COMM_OK \o CRLF)>>, <<>>, obj, buf)

\* the probe that gives up after a failed pointer write
HandleTestAdc_SkipsRead(handle, obj, buf, env) ==
    LET w == I2cEvent("I2C2", "Master_Transmit", ADS1115_ADDR_GND * 2, 0, <<1>>,
                      100, env.st[1], "ProcessUARTCommand")
        r == I2cEvent("I2C2", "Master_Receive", ADS1115_ADDR_GND * 2, 0,
                      IF env.st[2] = "HAL_OK" THEN env.rd ELSE <<0, 0>>, 100, env.st[2],
                      "ProcessUARTCommand")
    IN  IF env.st[1] # "HAL_OK"
        THEN Handled("test_adc",
                     <<(STR_I2C_FAIL \o FmtD(StatusCode(env.st[1])) \o <<COMMA>>
                        \o FmtD(StatusCode(env.st[2])) \o CRLF)>>,
                     <<w>>, obj, buf)
        ELSE IF env.st[2] # "HAL_OK"
        THEN Handled("test_adc",
                     <<(STR_I2C_FAIL \o FmtD(StatusCode(env.st[1])) \o <<COMMA>>
                        \o FmtD(StatusCode(env.st[2])) \o CRLF)>>,
                     <<w, r>>, obj, buf)
        ELSE Handled("test_adc",
                     <<(STR_OK_0X \o Fmt02X(env.rd[1]) \o Fmt02X(env.rd[2]) \o CRLF)>>,
                     <<w, r>>, obj, buf)

HandleTestAdc(handle, obj, buf, env) ==
    IF handle = "NULL"
    THEN Handled("test_adc", <<(STR_ADC_NOT_INIT \o CRLF)>>, <<>>, obj, buf)
    ELSE LET status1 == env.st[1]
             status2 == env.st[2]
             config_bytes == IF status2 = "HAL_OK" THEN env.rd ELSE <<0, 0>>
             w == I2cEvent("I2C2", "Master_Transmit", ADS1115_ADDR_GND * 2, 0, <<1>>,
                           100, status1, "ProcessUARTCommand")
             r == I2cEvent("I2C2", "Master_Receive", ADS1115_ADDR_GND * 2, 0,
                           config_bytes, 100, status2, "ProcessUARTCommand")
         IN  IF status1 = "HAL_OK" /\ status2 = "HAL_OK"
             THEN Handled("test_adc",
                          <<(STR_OK_0X \o Fmt02X(config_bytes[1]) \o Fmt02X(config_bytes[2])
                             \o CRLF)>>,
                          <<w, r>>, obj, buf)
             ELSE Handled("test_adc",
                          <<(STR_I2C_FAIL \o FmtD(StatusCode(status1)) \o <<COMMA>>
                             \o FmtD(StatusCode(status2)) \o CRLF)>>,
                          <<w, r>>, obj, buf)

\* the handler that answers "ERROR" when a step of the measurement failed
HandleReadAdcRaw_ReportsFailure(s, handle, obj, buf, env) ==
    LET channel == U8(atoi(Skip(s, 13)))
    IN  IF handle = "NULL" \/ channel > 3
        THEN Handled("read_adc_raw", <<(STR_ERROR \o CRLF)>>, <<>>, obj, buf)
        ELSE LET o == SelectChannel(obj, channel)
                 m == ADS1115_oneShotMeasure(o, env.st[1], env.st[2], env.st[3], env.rd)
             IN  IF \E i \in 1..Len(m.bus) : m.bus[i].st # "HAL_OK"
                 THEN Handled("read_adc_raw", <<(STR_ERROR \o CRLF)>>, m.bus, o, buf)
                 ELSE Handled("read_adc_raw", <<(FmtD(m.value) \o CRLF)>>, m.bus, o, buf)

HandleReadAdcRaw(s, handle, obj, buf, env) ==
    LET channel == U8(atoi(Skip(s, 13)))
    IN  IF handle = "NULL" \/ channel > 3
        THEN Handled("read_adc_raw", <<(STR_ERROR \o CRLF)>>, <<>>, obj, buf)
        ELSE LET o == SelectChannel(obj, channel)
                 m == ADS1115_oneShotMeasure(o, env.st[1], env.st[2], env.st[3], env.rd)
             IN  Handled("read_adc_raw", <<(FmtD(m.value) \o CRLF)>>, m.bus, o, buf)

HandleReadAdc(s, handle, obj, buf, env) ==
    LET channel == U8(atoi(Skip(s, 9)))
    IN  IF channel > 3
        THEN Handled("read_adc", <<>>, <<>>, obj, buf)
        ELSE LET v == ADS1115_ReadVoltage(channel, handle, obj, env)
             IN  Handled("read_adc", <<(FmtF4(v.voltage) \o CRLF)>>, v.bus, v.obj, buf)

\* the handler that gives channel D half the value
HandleSetAll_HalfOnD(s, obj, buf, env) ==
    LET dac_value == U16(atoi(Skip(s, 8)))
    IN  IF dac_value > 4095
        THEN Handled("set_all", <<>>, <<>>, obj, buf)
        ELSE LET w == MCP4728_SetAllChannels(<<dac_value, dac_value, dac_value,
                                               dac_value \div 2>>, env.dac)
             IN  Handled("set_all", DacReply(w.status), w.bus, obj, buf)

\* the handler that issues the write a second time after a failure
HandleSetAll_Retry(s, obj, buf, env) ==
    LET dac_value == U16(atoi(Skip(s, 8)))
    IN  IF dac_value > 4095
        THEN Handled("set_all", <<>>, <<>>, obj, buf)
        ELSE LET w == MCP4728_SetAllChannels(<<dac_value, dac_value, dac_value, dac_value>>,
                                             env.dac)
             IN  IF w.status \in {"HAL_OK", "HANG"}
                 THEN Handled("set_all", DacReply(w.status), w.bus, obj, buf)
                 ELSE Handled("set_all", DacReply(w.status), w.bus \o w.bus, obj, buf)

HandleSetAll(s, obj, buf, env) ==
    LET dac_value == U16(atoi(Skip(s, 8)))
    IN  IF dac_value > 4095
        THEN Handled("set_all", <<>>, <<>>, obj, buf)
        ELSE LET w == MCP4728_SetAllChannels(<<dac_value, dac_value, dac_value, dac_value>>,
                                             env.dac)
             IN  Handled("set_all", DacReply(w.status), w.bus, obj, buf)

\* the "channel,dac_value" form: everything below the prefix tests
HandleChannelValue(s, obj, buf, env) ==
    LET comma == strchr(s, COMMA)
    IN  IF comma < 0
        THEN Handled("channel_value", <<>>, <<>>, obj, buf)
        ELSE LET split == [buf EXCEPT ![comma] = NUL]
                 channel == U8(atoi(CStr(split, 0)))
                 dac_value == U16(atoi(CStr(split, comma + 1)))
             IN  IF channel > 3 \/ dac_value > 4095
                 THEN Handled("channel_value", <<>>, <<>>, obj, split)
                 ELSE LET w == MCP4728_WriteChannel(channel, dac_value, env.dac)
                      IN  Handled("channel_value", DacReply(w.status), w.bus, obj, split)

\* the dispatcher without its "set_all," test
ProcessUARTCommand_NoSetAll(buf, handle, obj, env) ==
    LET s == CStr(buf, 0)
    IN  IF strcmp_eq(s, STR_COMM_OK) THEN HandleCommOk(obj, buf)
        ELSE IF strcmp_eq(s, STR_TEST_ADC) THEN HandleTestAdc(handle, obj, buf, env)
        ELSE IF strncmp_eq(s, STR_READ_ADC_RAW, 13) THEN HandleReadAdcRaw(s, handle, obj, buf, env)
        ELSE IF strncmp_eq(s, STR_READ_ADC, 9) THEN HandleReadAdc(s, handle, obj, buf, env)
        ELSE HandleChannelValue(s, obj, buf, env)

ProcessUARTCommand(buf, handle, obj, env) ==
    LET s == CStr(buf, 0)
    IN  IF strcmp_eq(s, STR_COMM_OK) THEN HandleCommOk(obj, buf)
        ELSE IF strcmp_eq(s, STR_TEST_ADC) THEN HandleTestAdc(handle, obj, buf, env)
        ELSE IF strncmp_eq(s, STR_READ_ADC_RAW, 13) THEN HandleReadAdcRaw(s, handle, obj, buf, env)
        ELSE IF strncmp_eq(s, STR_READ_ADC, 9) THEN HandleReadAdc(s, handle, obj, buf, env)
        ELSE IF strncmp_eq(s, STR_SET_ALL, 8) THEN HandleSetAll(s, obj, buf, env)
        ELSE HandleChannelValue(s, obj, buf, env)

\* a handler whose DAC write never returned never returns either
Hung(bus) == \E i \in 1..Len(bus) : bus[i].st = "HANG"

(***************************************************************************)
(* The host: the lines it may put on the serial line.  A line is a run of  *)
(* junk filler bytes ('x'), a body and a terminator; the firmware sees the *)
(* bytes one at a time.  The bytes are printable ASCII and terminators.    *)
(***************************************************************************)
ValidValues == {0, 2748, 4095}

\* the <ch>,<v> lines with both arguments in range
ValidPairs == ((0..3) \X {0, 4095}) \cup {<<2, 2748>>}

\* arguments outside [0,4095], some of which wrap into it as uint16_t
OutOfRangeValues == {4096, 65535, 65536, 69631, -1, -61441}

ValidChannels == 0..3

\* arguments outside [0,3], some of which wrap into it as uint8_t
OutOfRangeChannels == {4, 5, 255, 256, 259, -1}

\* "<ch>,<v>"
PairLine(ch, v) == FmtD(ch) \o <<COMMA>> \o FmtD(v)

\* lines that are none of the six command forms with decimal arguments:
\*   ","
\*   "foo,bar"
\*   "set_all,"
\*   "read_adc,x"
\*   "read_adc_raw,x"
\*   "x,4095"
\*   "hello"
\*   "COMM_OKx"
\*   "test_adc,"
\*   "set_all"
\*   "read_adc"
\*   "2,"
\*   ",4095"
\*   "1"
MalformedLines ==
    {<<44>>,
     <<102, 111, 111, 44, 98, 97, 114>>,
     <<115, 101, 116, 95, 97, 108, 108, 44>>,
     <<114, 101, 97, 100, 95, 97, 100, 99, 44, 120>>,
     <<114, 101, 97, 100, 95, 97, 100, 99, 95, 114, 97, 119, 44, 120>>,
     <<120, 44, 52, 48, 57, 53>>,
     <<104, 101, 108, 108, 111>>,
     <<67, 79, 77, 77, 95, 79, 75, 120>>,
     <<116, 101, 115, 116, 95, 97, 100, 99, 44>>,
     <<115, 101, 116, 95, 97, 108, 108>>,
     <<114, 101, 97, 100, 95, 97, 100, 99>>,
     <<50, 44>>,
     <<44, 52, 48, 57, 53>>,
     <<49>>}

WellFormedLines ==
    {STR_COMM_OK, STR_TEST_ADC}
    \cup {STR_READ_ADC_RAW \o FmtD(c) : c \in ValidChannels \cup OutOfRangeChannels}
    \cup {STR_READ_ADC \o FmtD(c) : c \in ValidChannels \cup OutOfRangeChannels}
    \cup {STR_SET_ALL \o FmtD(v) : v \in ValidValues \cup OutOfRangeValues}
    \cup {PairLine(p[1], p[2]) : p \in ValidPairs}
    \cup {PairLine(c, 4095) : c \in OutOfRangeChannels}
    \cup {PairLine(1, v) : v \in OutOfRangeValues}

Bodies == WellFormedLines \cup MalformedLines

Terminators == {<<LF>>, <<CR>>, <<CR, LF>>}

\* the bodies sent with every terminator; the others end with "\n"
AnyTermBodies == {STR_COMM_OK, PairLine(0, 4095), STR_READ_ADC \o FmtD(5), <<COMMA>>}

\* junk runs around the capacity of rx_buffer, and what may follow them
JunkLens == (RX_SIZE - 1)..(RX_SIZE + MaxOver)

TailBodies == {<<>>, STR_COMM_OK, PairLine(0, 4095)}

Filler(n) == [i \in 1..n |-> 120]

\* the longest run whose tail after the reset still fits the buffer
RestartLen == 2 * RX_SIZE - 1

HostLines ==
    {[junk |-> 0, body |-> b, term |-> <<LF>>] : b \in Bodies}
    \cup {[junk |-> 0, body |-> b, term |-> t] : b \in AnyTermBodies, t \in Terminators}
    \cup {[junk |-> n, body |-> b, term |-> <<LF>>] : n \in JunkLens, b \in TailBodies}
    \cup {[junk |-> RestartLen, body |-> <<>>, term |-> <<LF>>]}

NoLine == [junk |-> 0, body |-> <<>>, term |-> <<>>]

\* the bytes of a line before its terminator
LineText(l) == Filler(l.junk) \o l.body

(***************************************************************************)
(* State.                                                                  *)
(*   pc          where main() is: "reset" (before main), "recv" (the       *)
(*               receive loop, at HAL_UART_Receive), "tx" (inside the      *)
(*               handler's HAL_UART_Transmit), "dac_error_loop" and        *)
(*               "adc_error_loop" (the two while(1) error states), "hung"  *)
(*               (inside a bus call that never returns), "fault" (the      *)
(*               fault handler)                                            *)
(*   rx_buffer, rx_index, adc_handle   the globals of main.c               *)
(*   heap        the ADS1115_Handle_t that adc_handle points to            *)
(*   dac_out     the four channel codes the MCP4728 holds                  *)
(*   wire        bytes sent by the host and not yet received               *)
(*   txInFlight  the lines handed to HAL_UART_Transmit that the call has   *)
(*               not yet finished sending                                  *)
(*   iter        what main() did last, in the start-up code or in the last *)
(*               iteration of the receive loop: kind, the line dispatched, *)
(*               the handler that ran, the response lines, the bus events  *)
(*   sent        the line the host sent last                               *)
(*   nDisp       ProcessUARTCommand calls since the host sent that line    *)
(*   hostRx      response lines the host received since it sent that line  *)
(*   call        the driver function called last when the drivers are      *)
(*               exercised on their own: its arguments, what it returned,  *)
(*               its bus events, and the device and handle before the call *)
(***************************************************************************)
VARIABLES pc, rx_buffer, rx_index, adc_handle, heap, dac_out, wire,
          txInFlight, iter, sent, nDisp, hostRx, call, adc_pointer

vars == <<pc, rx_buffer, rx_index, adc_handle, heap, dac_out, wire,
          txInFlight, iter, sent, nDisp, hostRx, call, adc_pointer>>

\* memset(rx_buffer, 0, sizeof(rx_buffer))
ZeroBuffer == [i \in 0..(RX_SIZE - 1) |-> NUL]

\* the initializer of adc_config in main()
adc_config ==
    [channel |-> ADS1115_MUX_AIN0_GND, pgaConfig |-> ADS1115_PGA_6V144,
     operatingMode |-> MODE_SINGLE_SHOT, dataRate |-> ADS1115_DR_128SPS,
     compareMode |-> ADS1115_COMP_MODE_TRAD, polarityMode |-> ADS1115_POL_ACTIVE_LOW,
     latchingMode |-> ADS1115_LAT_NON_LATCHING, queueComparator |-> ADS1115_QUE_DISABLE]

\* heap before ADS1115_init: no object
NoObject ==
    [hi2c |-> "none", address |-> 0,
     config |-> [channel |-> 0, pgaConfig |-> 0, operatingMode |-> 0, dataRate |-> 0,
                 compareMode |-> 0, polarityMode |-> 0, latchingMode |-> 0,
                 queueComparator |-> 0]]

\* what the DAC may hold at power-on (loaded from its EEPROM)
PowerOnCodes == {<<0, 0, 0, 0>>, <<100, 200, 300, 400>>}

\* dacBefore: the codes the DAC held before a dispatch or before start-up
\* ptrBefore: the register the ADC's address pointer selected before a dispatch
NoIter ==
    [kind |-> "none", line |-> <<>>, handler |-> "none", tx |-> <<>>, bus |-> <<>>,
     dacBefore |-> <<>>, ptrBefore |-> 0]

NoCall ==
    [fn |-> "none", args |-> <<>>, status |-> "none", value |-> 0, bus |-> <<>>,
     dacBefore |-> <<>>, objBefore |-> NoObject]

Init ==
    /\ pc = "reset"
    /\ rx_buffer = ZeroBuffer
    /\ rx_index = 0
    /\ adc_handle = "NULL"
    /\ heap = NoObject
    /\ dac_out \in PowerOnCodes
    /\ wire = <<>>
    /\ txInFlight = <<>>
    /\ iter = NoIter
    /\ call = NoCall
    /\ sent = NoLine
    /\ nDisp = 0
    /\ hostRx = <<>>
    /\ adc_pointer = 0

\* the start-up that treats a failed zeroing write like a failed wake-up
StartupResult_ChecksZeroing(st0, dz, m, fault) ==
    LET init == MCP4728_Init(st0)
        zero == MCP4728_SetAllChannels(<<0, 0, 0, 0>>, dz)
        stay == [pc |-> "reset", bus |-> <<>>, dac |-> dac_out,
                 handle |-> adc_handle, obj |-> heap]
    IN  IF init.status # "HAL_OK"
        THEN [stay EXCEPT !.pc = "dac_error_loop", !.bus = init.bus]
        ELSE IF Hung(zero.bus)
        THEN [stay EXCEPT !.pc = "hung", !.bus = init.bus \o zero.bus]
        ELSE IF zero.status # "HAL_OK"
        THEN [stay EXCEPT !.pc = "dac_error_loop", !.bus = init.bus \o zero.bus]
        ELSE LET b == init.bus \o zero.bus
                 d == DacAfter(dac_out, zero.bus)
             IN  IF m = "NULL"
                 THEN [stay EXCEPT !.pc = IF fault THEN "fault" ELSE "adc_error_loop",
                                   !.bus = b, !.dac = d]
                 ELSE [pc |-> "recv", bus |-> b, dac |-> d, handle |-> m,
                       obj |-> ADS1115_init("I2C2", ADS1115_ADDR_GND, adc_config)]

\* the start-up that enters the receive loop whatever ADS1115_init returned
StartupResult_NoNullCheck(st0, dz, m, fault) ==
    LET init == MCP4728_Init(st0)
        zero == MCP4728_SetAllChannels(<<0, 0, 0, 0>>, dz)
        stay == [pc |-> "reset", bus |-> <<>>, dac |-> dac_out,
                 handle |-> adc_handle, obj |-> heap]
    IN  IF init.status # "HAL_OK"
        THEN [stay EXCEPT !.pc = "dac_error_loop", !.bus = init.bus]
        ELSE IF Hung(zero.bus)
        THEN [stay EXCEPT !.pc = "hung", !.bus = init.bus \o zero.bus]
        ELSE LET b == init.bus \o zero.bus
                 d == DacAfter(dac_out, zero.bus)
             IN  IF m = "NULL"
                 THEN [stay EXCEPT !.pc = IF fault THEN "fault" ELSE "recv",
                                   !.bus = b, !.dac = d]
                 ELSE [pc |-> "recv", bus |-> b, dac |-> d, handle |-> m,
                       obj |-> ADS1115_init("I2C2", ADS1115_ADDR_GND, adc_config)]

\* start-up in which ADS1115_init also writes the configuration to the device
StartupResult_PushesConfig(st0, dz, m, fault) ==
    LET init == MCP4728_Init(st0)
        zero == MCP4728_SetAllChannels(<<0, 0, 0, 0>>, dz)
        stay == [pc |-> "reset", bus |-> <<>>, dac |-> dac_out,
                 handle |-> adc_handle, obj |-> heap]
    IN  IF init.status # "HAL_OK"
        THEN [stay EXCEPT !.pc = "dac_error_loop", !.bus = init.bus]
        ELSE IF Hung(zero.bus)
        THEN [stay EXCEPT !.pc = "hung", !.bus = init.bus \o zero.bus]
        ELSE LET b == init.bus \o zero.bus
                 d == DacAfter(dac_out, zero.bus)
             IN  IF m = "NULL"
                 THEN [stay EXCEPT !.pc = IF fault THEN "fault" ELSE "adc_error_loop",
                                   !.bus = b, !.dac = d]
                 ELSE [pc |-> "recv",
                       bus |-> b \o <<I2cEvent("I2C2", "Master_Transmit",
                                               ADS1115_ADDR_GND * 2, 0,
                                               prepareConfigFrame(adc_config), 100,
                                               "HAL_OK", "ADS1115_init")>>,
                       dac |-> d, handle |-> m,
                       obj |-> ADS1115_init("I2C2", ADS1115_ADDR_GND, adc_config)]

(***************************************************************************)
(* main() up to the receive loop.                                          *)
(*   st0    status of the wake-up general call                             *)
(*   dz     status of the zeroing write ("HANG": it never returns)         *)
(*   m      what malloc returns in ADS1115_init                            *)
(*   fault  ADS1115_init stores through the pointer without testing it:    *)
(*          with m = "NULL" that is undefined; the store either faults or  *)
(*          is ignored by the memory at address 0                          *)
(***************************************************************************)
StartupResult(st0, dz, m, fault) ==
    LET init == MCP4728_Init(st0)
        zero == MCP4728_SetAllChannels(<<0, 0, 0, 0>>, dz)
        stay == [pc |-> "reset", bus |-> <<>>, dac |-> dac_out,
                 handle |-> adc_handle, obj |-> heap]
    IN  IF init.status # "HAL_OK"
        THEN [stay EXCEPT !.pc = "dac_error_loop", !.bus = init.bus]
        ELSE IF Hung(zero.bus)
        THEN [stay EXCEPT !.pc = "hung", !.bus = init.bus \o zero.bus]
        ELSE LET b == init.bus \o zero.bus
                 d == DacAfter(dac_out, zero.bus)
             IN  IF m = "NULL"
                 THEN [stay EXCEPT !.pc = IF fault THEN "fault" ELSE "adc_error_loop",
                                   !.bus = b, !.dac = d]
                 ELSE [pc |-> "recv", bus |-> b, dac |-> d, handle |-> m,
                       obj |-> ADS1115_init("I2C2", ADS1115_ADDR_GND, adc_config)]

Startup ==
    /\ pc = "reset"
    /\ \E st0 \in HAL_StatusTypeDef, dz \in HAL_StatusTypeDef \cup {"HANG"},
          m \in {"H0", "NULL"}, fault \in BOOLEAN :
         \E n \in {StartupResult(st0, dz, m, fault)} :
            /\ pc' = n.pc
            /\ iter' = [NoIter EXCEPT !.kind = "startup", !.bus = n.bus,
                                      !.dacBefore = dac_out]
            /\ dac_out' = n.dac
            /\ adc_handle' = n.handle
            /\ heap' = n.obj
            /\ adc_pointer' = AdcPointerAfter(adc_pointer, n.bus)
    /\ rx_buffer' = ZeroBuffer
    /\ rx_index' = 0
    /\ UNCHANGED <<wire, txInFlight, sent, nDisp, hostRx, call>>

\* the error state left again, as with "if" in place of "while (1)"
DacErrorLoop_Leaves ==
    /\ pc = "dac_error_loop"
    /\ pc' = "recv"
    /\ UNCHANGED <<rx_buffer, rx_index, adc_handle, heap, dac_out, wire, txInFlight,
                   iter, sent, nDisp, hostRx, call, adc_pointer>>

\* while (1) { HAL_Delay(1000); } after a failed MCP4728_Init
DacErrorLoop ==
    /\ pc = "dac_error_loop"
    /\ UNCHANGED vars

\* while (1) { HAL_Delay(1000); } after adc_handle == NULL
AdcErrorLoop ==
    /\ pc = "adc_error_loop"
    /\ UNCHANGED vars

(***************************************************************************)
(* One iteration of the receive loop in which HAL_UART_Receive returned a  *)
(* byte.                                                                   *)
(***************************************************************************)
IsTerminator(byte) == byte = LF \/ byte = CR

\* the terminator branch without its "rx_index > 0" test
HasLine_Unchecked(idx) == TRUE

\* if (rx_index > 0)
HasLine(idx) == idx > 0

\* the room test with sizeof(rx_buffer) in place of sizeof(rx_buffer) - 1
HasRoom_WholeBuffer(idx) == idx < RX_SIZE

\* else if (rx_index < (sizeof(rx_buffer) - 1))
HasRoom(idx) == idx < RX_SIZE - 1

\* the loop body that starts the new line with the byte that overflowed
LoopIteration_KeepsOverflowByte(byte, env) ==
    IF IsTerminator(byte)
    THEN IF HasLine(rx_index)
         THEN LET terminated == [rx_buffer EXCEPT ![rx_index] = NUL]
                  r == ProcessUARTCommand(terminated, adc_handle, heap, env)
                  it == [kind |-> "dispatch", line |-> CStr(terminated, 0),
                         handler |-> r.handler, tx |-> r.tx, bus |-> r.bus,
                         dacBefore |-> dac_out, ptrBefore |-> adc_pointer]
              IN  IF Hung(r.bus)
                  THEN [pc |-> "hung", buf |-> r.buf, idx |-> rx_index, obj |-> r.obj,
                        tx |-> <<>>, iter |-> it]
                  ELSE IF r.tx # <<>>
                  THEN [pc |-> "tx", buf |-> r.buf, idx |-> rx_index, obj |-> r.obj,
                        tx |-> r.tx, iter |-> it]
                  ELSE [pc |-> "recv", buf |-> ZeroBuffer, idx |-> 0, obj |-> r.obj,
                        tx |-> <<>>, iter |-> it]
         ELSE [pc |-> "recv", buf |-> rx_buffer, idx |-> rx_index, obj |-> heap,
               tx |-> <<>>, iter |-> [NoIter EXCEPT !.kind = "no_line"]]
    ELSE IF HasRoom(rx_index)
    THEN [pc |-> "recv", buf |-> [rx_buffer EXCEPT ![rx_index] = byte],
          idx |-> U8(rx_index + 1), obj |-> heap,
          tx |-> <<>>, iter |-> [NoIter EXCEPT !.kind = "store"]]
    ELSE [pc |-> "recv", buf |-> [ZeroBuffer EXCEPT ![0] = byte], idx |-> 1, obj |-> heap,
          tx |-> <<>>, iter |-> [NoIter EXCEPT !.kind = "overflow"]]

LoopIteration(byte, env) ==
    IF IsTerminator(byte)
    THEN IF HasLine(rx_index)
         THEN LET terminated == [rx_buffer EXCEPT ![rx_index] = NUL]
                  r == ProcessUARTCommand(terminated, adc_handle, heap, env)
                  it == [kind |-> "dispatch", line |-> CStr(terminated, 0),
                         handler |-> r.handler, tx |-> r.tx, bus |-> r.bus,
                         dacBefore |-> dac_out, ptrBefore |-> adc_pointer]
              IN  IF Hung(r.bus)
                  THEN [pc |-> "hung", buf |-> r.buf, idx |-> rx_index, obj |-> r.obj,
                        tx |-> <<>>, iter |-> it]
                  ELSE IF r.tx # <<>>
                  THEN [pc |-> "tx", buf |-> r.buf, idx |-> rx_index, obj |-> r.obj,
                        tx |-> r.tx, iter |-> it]
                  ELSE [pc |-> "recv", buf |-> ZeroBuffer, idx |-> 0, obj |-> r.obj,
                        tx |-> <<>>, iter |-> it]
         ELSE [pc |-> "recv", buf |-> rx_buffer, idx |-> rx_index, obj |-> heap,
               tx |-> <<>>, iter |-> [NoIter EXCEPT !.kind = "no_line"]]
    ELSE IF HasRoom(rx_index)
    THEN [pc |-> "recv", buf |-> [rx_buffer EXCEPT ![rx_index] = byte],
          idx |-> U8(rx_index + 1), obj |-> heap,
          tx |-> <<>>, iter |-> [NoIter EXCEPT !.kind = "store"]]
    ELSE [pc |-> "recv", buf |-> ZeroBuffer, idx |-> 0, obj |-> heap,
          tx |-> <<>>, iter |-> [NoIter EXCEPT !.kind = "overflow"]]

\* the iterations that reach a bus draw its outcomes
OutcomesFor(byte) ==
    IF IsTerminator(byte) /\ HasLine(rx_index) THEN EnvSet
    ELSE {[dac |-> "HAL_OK", st |-> AllOk, rd |-> <<0, 0>>]}

ReceiveByte ==
    /\ pc = "recv"
    /\ wire # <<>>
    /\ \E env \in OutcomesFor(Head(wire)) :
         \E n \in {LoopIteration(Head(wire), env)} :
            /\ pc' = n.pc
            /\ rx_buffer' = n.buf
            /\ rx_index' = n.idx
            /\ heap' = n.obj
            /\ txInFlight' = n.tx
            /\ iter' = n.iter
            /\ dac_out' = DacAfter(dac_out, n.iter.bus)
            /\ adc_pointer' = AdcPointerAfter(adc_pointer, n.iter.bus)
            /\ nDisp' = IF n.iter.kind = "dispatch" THEN nDisp + 1 ELSE nDisp
    /\ wire' = Tail(wire)
    /\ UNCHANGED <<adc_handle, sent, hostRx, call>>

\* an iteration in which HAL_UART_Receive timed out: nothing arrived
\* within 10 ms
ReceiveTimeout ==
    /\ pc = "recv"
    /\ wire = <<>>
    /\ iter' = [NoIter EXCEPT !.kind = "timeout"]
    /\ UNCHANGED <<pc, rx_buffer, rx_index, adc_handle, heap, dac_out, wire,
                   txInFlight, sent, nDisp, hostRx, call, adc_pointer>>

\* HAL_UART_Transmit returns; ProcessUARTCommand returns; the loop clears
\* the line
UartTransmitReturn ==
    /\ pc = "tx"
    /\ hostRx' = hostRx \o txInFlight
    /\ txInFlight' = <<>>
    /\ rx_index' = 0
    /\ rx_buffer' = ZeroBuffer
    /\ pc' = "recv"
    /\ UNCHANGED <<adc_handle, heap, dac_out, wire, iter, sent, nDisp, call, adc_pointer>>

\* the host is done with the line it sent: the firmware is idle again, and
\* the host has read the response or has given up waiting for one
HostDone ==
    /\ pc = "recv"
    /\ wire = <<>>
    /\ sent # NoLine
    /\ iter.kind = "timeout"
    /\ sent' = NoLine
    /\ nDisp' = 0
    /\ hostRx' = <<>>
    /\ UNCHANGED <<pc, rx_buffer, rx_index, adc_handle, heap, dac_out, wire,
                   txInFlight, iter, call, adc_pointer>>

\* the host sends its next line; it leaves a gap after the previous one,
\* long enough for the receive loop to time out once.  It also sends when
\* the firmware sits in one of its error loops, where nothing receives.
HostSend ==
    /\ \/ pc = "recv" /\ iter.kind \in {"none", "timeout"}
       \/ pc \in {"dac_error_loop", "adc_error_loop"}
    /\ wire = <<>>
    /\ sent = NoLine
    /\ \E l \in HostLines :
         /\ sent' = l
         /\ wire' = LineText(l) \o l.term
    /\ UNCHANGED <<pc, rx_buffer, rx_index, adc_handle, heap, dac_out, txInFlight,
                   iter, nDisp, hostRx, call, adc_pointer>>

Next ==
    \/ Startup
    \/ DacErrorLoop
    \/ AdcErrorLoop
    \/ ReceiveByte
    \/ ReceiveTimeout
    \/ UartTransmitReturn
    \/ HostDone
    \/ HostSend

Spec == Init /\ [][Next]_vars

\* while (1) never stops iterating: a byte that has arrived is received, a
\* receive with nothing on the line times out after 10 ms, and
\* HAL_UART_Transmit returns within its 100 ms
LiveSpec ==
    /\ Spec
    /\ WF_vars(ReceiveByte)
    /\ WF_vars(ReceiveTimeout)
    /\ WF_vars(UartTransmitReturn)

(***************************************************************************)
(* The drivers on their own: any of the driver functions may be called     *)
(* next, with any argument of the sets below, on a device holding any of   *)
(* the codes it can hold and a handle holding any of the configurations.   *)
(* A DAC write that never returns ends the run (pc = "hung").              *)
(***************************************************************************)
DriverChannels == 0..3

DriverValues == {0, 2748, 4095}

\* uint16_t arguments, in and out of the 12-bit range
DriverTuples ==
    {<<0, 0, 0, 0>>, <<1, 2, 3, 4>>, <<4095, 2748, 256, 255>>,
     <<65535, 4096, 61440, 4351>>}

DriverConfigs ==
    {adc_config,
     [channel |-> ADS1115_MUX_AIN3_GND, pgaConfig |-> 5, operatingMode |-> MODE_CONTINOUS,
      dataRate |-> 7, compareMode |-> 1, polarityMode |-> 1, latchingMode |-> 1,
      queueComparator |-> 2]}

\* int16_t arguments <<lowValue, highValue>> of ADS1115_setThresholds
DriverThresholds == {<<-100, 100>>, <<-32768, 32767>>, <<256, -2>>}

\* what the three ADC transactions of one call return
DriverAdcOutcomes == {e \in EnvSet : e.dac = "HAL_OK"}

DacOutcomes == HAL_StatusTypeDef \cup {"HANG"}

DriverInit ==
    /\ pc = "driver"
    /\ rx_buffer = ZeroBuffer
    /\ rx_index = 0
    /\ adc_handle = "H0"
    /\ heap \in {ADS1115_init("I2C2", ADS1115_ADDR_GND, c) : c \in DriverConfigs}
    /\ dac_out \in PowerOnCodes
    /\ wire = <<>>
    /\ txInFlight = <<>>
    /\ iter = NoIter
    /\ sent = NoLine
    /\ nDisp = 0
    /\ hostRx = <<>>
    /\ adc_pointer = 0
    /\ call = NoCall

\* a call of a DAC driver function that returned r = [status, bus]
DacCall(fn, args, r) ==
    /\ call' = [NoCall EXCEPT !.fn = fn, !.args = args, !.status = r.status,
                              !.bus = r.bus, !.dacBefore = dac_out]
    /\ dac_out' = DacAfter(dac_out, r.bus)
    /\ pc' = IF Hung(r.bus) THEN "hung" ELSE pc
    /\ UNCHANGED <<rx_buffer, rx_index, adc_handle, heap, wire, txInFlight, iter, sent,
                   nDisp, hostRx, adc_pointer>>

\* a call of an ADC driver function: value returned, bus events, handle afterwards
AdcCall(fn, value, bus, obj) ==
    /\ call' = [NoCall EXCEPT !.fn = fn, !.value = value, !.bus = bus, !.objBefore = heap]
    /\ heap' = obj
    /\ adc_pointer' = AdcPointerAfter(adc_pointer, bus)
    /\ UNCHANGED <<pc, rx_buffer, rx_index, adc_handle, dac_out, wire, txInFlight, iter,
                   sent, nDisp, hostRx>>

\* a call of an ADC driver function that returns nothing, with its arguments
AdcCallVoid(fn, args, bus, obj) ==
    /\ call' = [NoCall EXCEPT !.fn = fn, !.args = args, !.bus = bus, !.objBefore = heap]
    /\ heap' = obj
    /\ adc_pointer' = AdcPointerAfter(adc_pointer, bus)
    /\ UNCHANGED <<pc, rx_buffer, rx_index, adc_handle, dac_out, wire, txInFlight, iter,
                   sent, nDisp, hostRx>>

CallInit ==
    /\ pc = "driver"
    /\ \E st \in HAL_StatusTypeDef : DacCall("MCP4728_Init", <<>>, MCP4728_Init(st))

CallWriteChannel ==
    /\ pc = "driver"
    /\ \E ch \in DriverChannels, value \in DriverValues, st \in DacOutcomes :
         DacCall("MCP4728_WriteChannel", <<ch, value>>, MCP4728_WriteChannel(ch, value, st))

CallSetAllChannels ==
    /\ pc = "driver"
    /\ \E values \in DriverTuples, st \in DacOutcomes :
         DacCall("MCP4728_SetAllChannels", values, MCP4728_SetAllChannels(values, st))

CallOneShotMeasure ==
    /\ pc = "driver"
    /\ \E e \in DriverAdcOutcomes :
         \E m \in {ADS1115_oneShotMeasure(heap, e.st[1], e.st[2], e.st[3], e.rd)} :
            AdcCall("ADS1115_oneShotMeasure", m.value, m.bus, heap)

CallGetData ==
    /\ pc = "driver"
    /\ \E e \in DriverAdcOutcomes :
         \E m \in {ADS1115_getData(heap, e.st[2], e.st[3], e.rd)} :
            AdcCall("ADS1115_getData", m.value, m.bus, heap)

CallStartContinousMode ==
    /\ pc = "driver"
    /\ \E st \in HAL_StatusTypeDef :
         \E m \in {ADS1115_startContinousMode(heap, st)} :
            AdcCall("ADS1115_startContinousMode", 0, m.bus, m.obj)

CallStopContinousMode ==
    /\ pc = "driver"
    /\ \E st \in HAL_StatusTypeDef :
         \E m \in {ADS1115_stopContinousMode(heap, st)} :
            AdcCall("ADS1115_stopContinousMode", 0, m.bus, m.obj)

CallUpdateConfig ==
    /\ pc = "driver"
    /\ \E config \in DriverConfigs, st \in HAL_StatusTypeDef :
         \E m \in {ADS1115_updateConfig(heap, config, st)} :
            AdcCallVoid("ADS1115_updateConfig", <<config>>, m.bus, m.obj)

CallSetThresholds ==
    /\ pc = "driver"
    /\ \E t \in DriverThresholds, stHi \in HAL_StatusTypeDef, stLo \in HAL_StatusTypeDef :
         \E m \in {ADS1115_setThresholds(heap, t[1], t[2], stHi, stLo)} :
            AdcCallVoid("ADS1115_setThresholds", t, m.bus, m.obj)

CallSetConversionReadyPin ==
    /\ pc = "driver"
    /\ \E stHi \in HAL_StatusTypeDef, stLo \in HAL_StatusTypeDef :
         \E m \in {ADS1115_setConversionReadyPin(heap, stHi, stLo)} :
            AdcCallVoid("ADS1115_setConversionReadyPin", <<>>, m.bus, m.obj)

DriverNext ==
    \/ CallInit
    \/ CallWriteChannel
    \/ CallSetAllChannels
    \/ CallOneShotMeasure
    \/ CallGetData
    \/ CallStartContinousMode
    \/ CallStopContinousMode
    \/ CallUpdateConfig
    \/ CallSetThresholds
    \/ CallSetConversionReadyPin

DriverSpec == DriverInit /\ [][DriverNext]_vars

(***************************************************************************)
(* The DAC frame on its own: MCP4728_SetAllChannels packs a 4-tuple of     *)
(* 12-bit values, each drawn from FrameValues.                             *)
(***************************************************************************)
FrameValues == {0, 1, 15, 16, 255, 256, 2748, 4095}

FrameInit ==
    /\ pc = "frame"
    /\ rx_buffer = ZeroBuffer
    /\ rx_index = 0
    /\ adc_handle = "NULL"
    /\ heap = NoObject
    /\ dac_out = <<0, 0, 0, 0>>
    /\ wire = <<>>
    /\ txInFlight = <<>>
    /\ iter = NoIter
    /\ sent = NoLine
    /\ nDisp = 0
    /\ hostRx = <<>>
    /\ adc_pointer = 0
    /\ \E v0 \in FrameValues, v1 \in FrameValues, v2 \in FrameValues, v3 \in FrameValues :
         call = [NoCall EXCEPT !.fn = "values", !.args = <<v0, v1, v2, v3>>]

PackFrame ==
    /\ pc = "frame"
    /\ call.fn = "values"
    /\ DacCall("MCP4728_SetAllChannels", call.args,
               MCP4728_SetAllChannels(call.args, "HAL_OK"))

FrameSpec == FrameInit /\ [][PackFrame]_vars

(***************************************************************************)
(* The voltage conversion on its own: "read_adc,0" is served on a device   *)
(* that returns any two bytes to the read, all bus steps succeeding.       *)
(***************************************************************************)
ByteValues == 0..255

VoltageInit ==
    /\ pc = "voltage"
    /\ rx_buffer = ZeroBuffer
    /\ rx_index = 0
    /\ adc_handle = "H0"
    /\ heap = ADS1115_init("I2C2", ADS1115_ADDR_GND, adc_config)
    /\ dac_out = <<0, 0, 0, 0>>
    /\ wire = <<>>
    /\ txInFlight = <<>>
    /\ iter = NoIter
    /\ sent = NoLine
    /\ nDisp = 0
    /\ hostRx = <<>>
    /\ adc_pointer = 0
    /\ \E b0 \in ByteValues, b1 \in ByteValues :
         call = [NoCall EXCEPT !.fn = "bytes", !.args = <<b0, b1>>]

\* float voltage = ADS1115_ReadVoltage(channel); sprintf("%.4f\r\n", voltage)
ReadVoltage ==
    /\ pc = "voltage"
    /\ call.fn = "bytes"
    /\ \E v \in {ADS1115_ReadVoltage(0, adc_handle, heap,
                                      [dac |-> "HAL_OK", st |-> AllOk, rd |-> call.args])} :
         /\ call' = [NoCall EXCEPT !.fn = "ADS1115_ReadVoltage", !.args = <<0>>,
                                   !.value = v.voltage, !.bus = v.bus,
                                   !.objBefore = heap]
         /\ heap' = v.obj
         /\ txInFlight' = <<(FmtF4(v.voltage) \o CRLF)>>
         /\ adc_pointer' = AdcPointerAfter(adc_pointer, v.bus)
    /\ UNCHANGED <<pc, rx_buffer, rx_index, adc_handle, dac_out, wire, iter, sent, nDisp,
                   hostRx>>

VoltageSpec == VoltageInit /\ [][ReadVoltage]_vars

(***************************************************************************)
(* The config packing on its own: a handle is given any configuration of   *)
(* in-range enum values by ADS1115_updateConfig, and a one-shot            *)
(* measurement follows; all bus steps succeed.                             *)
(***************************************************************************)
ConfigValues ==
    [channel : 0..7, pgaConfig : 0..5, operatingMode : 0..1, dataRate : 0..7,
     compareMode : 0..1, polarityMode : 0..1, latchingMode : 0..1,
     queueComparator : 0..3]

ConfigInit ==
    /\ pc = "config"
    /\ rx_buffer = ZeroBuffer
    /\ rx_index = 0
    /\ adc_handle = "H0"
    /\ heap = ADS1115_init("I2C2", ADS1115_ADDR_GND, adc_config)
    /\ dac_out = <<0, 0, 0, 0>>
    /\ wire = <<>>
    /\ txInFlight = <<>>
    /\ iter = NoIter
    /\ sent = NoLine
    /\ nDisp = 0
    /\ hostRx = <<>>
    /\ adc_pointer = 0
    /\ \E config \in ConfigValues :
         call = [NoCall EXCEPT !.fn = "config", !.args = <<config>>]

PackConfig ==
    /\ pc = "config"
    /\ call.fn = "config"
    /\ \E m \in {ADS1115_updateConfig(heap, call.args[1], "HAL_OK")} :
         AdcCallVoid("ADS1115_updateConfig", call.args, m.bus, m.obj)

MeasureWithConfig ==
    /\ pc = "config"
    /\ call.fn = "ADS1115_updateConfig"
    /\ \E m \in {ADS1115_oneShotMeasure(heap, "HAL_OK", "HAL_OK", "HAL_OK", <<0, 0>>)} :
         AdcCall("ADS1115_oneShotMeasure", m.value, m.bus, heap)

ConfigNext ==
    \/ PackConfig
    \/ MeasureWithConfig

ConfigSpec == ConfigInit /\ [][ConfigNext]_vars

(***************************************************************************)
(* The per-channel variant of the DAC driver (src/unnamed/part_000): each  *)
(* channel is written by a 3-byte transmit of its own.  The header of the  *)
(* variant is not among the sources; MCP4728_I2C_ADDR is taken to be the   *)
(* device address the other driver uses.                                   *)
(***************************************************************************)
MCP4728_I2C_ADDR == MCP4728_BASEADDR

\* cmd = 0x40 | (ch << 1); data[1] = (value >> 8) & 0x0F; data[2] = value & 0xFF
Variant_MCP4728_WriteChannel(ch, value, st) ==
    [status |-> st,
     bus |-> <<I2cEvent("I2C1", "Master_Transmit", MCP4728_I2C_ADDR, 0,
                        <<U8(BitOr(64, ch * 2)), DacHi(value), DacLo(value)>>,
                        HAL_MAX_DELAY, st, "MCP4728_WriteChannel")>>]

\* the loop that goes on with the next channel after a write that failed
Variant_SetAllLoop_KeepsGoing(ch, values, sts) ==
    LET w(c) == Variant_MCP4728_WriteChannel(c, values[c + 1], sts[c + 1])
        d == <<HAL_Delay(5, "MCP4728_SetAllChannels")>>
        failed == {c \in ch..3 : sts[c + 1] # "HAL_OK"}
    IN  [status |-> IF failed = {} THEN "HAL_OK"
                    ELSE sts[(CHOOSE c \in failed : \A e \in failed : c <= e) + 1],
         bus |-> IF ch = 4 THEN <<>>
                 ELSE IF ch = 3 THEN w(3).bus \o d
                 ELSE IF ch = 2 THEN w(2).bus \o d \o w(3).bus \o d
                 ELSE IF ch = 1 THEN w(1).bus \o d \o w(2).bus \o d \o w(3).bus \o d
                 ELSE w(0).bus \o d \o w(1).bus \o d \o w(2).bus \o d \o w(3).bus \o d]

\* for (ch = 0; ch < 4; ch++) { ret = WriteChannel; if (ret != HAL_OK) return ret;
\* HAL_Delay(5); } return HAL_OK;  sts[ch + 1] is what the write of channel ch returns
RECURSIVE Variant_SetAllLoop(_, _, _)
Variant_SetAllLoop(ch, values, sts) ==
    IF ch = 4 THEN [status |-> "HAL_OK", bus |-> <<>>]
    ELSE LET ret == Variant_MCP4728_WriteChannel(ch, values[ch + 1], sts[ch + 1])
         IN  IF ret.status # "HAL_OK" THEN ret
             ELSE LET rest == Variant_SetAllLoop(ch + 1, values, sts)
                  IN  [status |-> rest.status,
                       bus |-> ret.bus \o <<HAL_Delay(5, "MCP4728_SetAllChannels")>>
                               \o rest.bus]

Variant_MCP4728_SetAllChannels(values, sts) == Variant_SetAllLoop(0, values, sts)

\* the MCP4728 device: an acknowledged 3-byte multi-write (command bits
\* 01000, then the channel, then UDAC) loads the input register of that one
\* channel; a write that failed loads nothing
DacAfterMultiWriteEvent(codes, ev) ==
    IF ev.bus = "I2C1" /\ ev.op = "Master_Transmit" /\ ev.addr = MCP4728_I2C_ADDR
       /\ ev.st = "HAL_OK" /\ Len(ev.data) = 3 /\ BitAnd(ev.data[1], 248) = 64
    THEN [codes EXCEPT ![((ev.data[1] \div 2) % 4) + 1] =
                           BitAnd(ev.data[2], 15) * 256 + ev.data[3]]
    ELSE codes

RECURSIVE DacAfterMultiWrite(_, _)
DacAfterMultiWrite(codes, evs) ==
    IF evs = <<>> THEN codes
    ELSE DacAfterMultiWrite(DacAfterMultiWriteEvent(codes, Head(evs)), Tail(evs))

VariantTuples == {<<4095, 2748, 256, 255>>, <<65535, 4096, 61440, 4351>>}

\* what the four writes of one call return: all succeed, or the writes before
\* channel k succeed and that of channel k fails or never returns (the
\* entries after k are what the later writes would return, were they made)
VariantOutcomes ==
    {<<"HAL_OK", "HAL_OK", "HAL_OK", "HAL_OK">>}
    \cup {[i \in 1..4 |-> IF i = k THEN f ELSE "HAL_OK"] :
            k \in 1..4, f \in DacOutcomes \ {"HAL_OK"}}

VariantInit ==
    /\ pc = "variant"
    /\ rx_buffer = ZeroBuffer
    /\ rx_index = 0
    /\ adc_handle = "NULL"
    /\ heap = NoObject
    /\ dac_out \in PowerOnCodes
    /\ wire = <<>>
    /\ txInFlight = <<>>
    /\ iter = NoIter
    /\ sent = NoLine
    /\ nDisp = 0
    /\ hostRx = <<>>
    /\ adc_pointer = 0
    /\ call = NoCall

\* a call of a function of the variant that returned r = [status, bus]
VariantCall(fn, args, r) ==
    /\ call' = [NoCall EXCEPT !.fn = fn, !.args = args, !.status = r.status,
                              !.bus = r.bus, !.dacBefore = dac_out]
    /\ dac_out' = DacAfterMultiWrite(dac_out, r.bus)
    /\ pc' = IF Hung(r.bus) THEN "hung" ELSE pc
    /\ UNCHANGED <<rx_buffer, rx_index, adc_handle, heap, wire, txInFlight, iter, sent,
                   nDisp, hostRx, adc_pointer>>

CallVariantSetAllChannels ==
    /\ pc = "variant"
    /\ \E values \in VariantTuples, sts \in VariantOutcomes :
         VariantCall("MCP4728_SetAllChannels", values,
                     Variant_MCP4728_SetAllChannels(values, sts))

VariantSpec == VariantInit /\ [][CallVariantSetAllChannels]_vars

(***************************************************************************)
(* Vocabulary of the properties.                                           *)
(***************************************************************************)
Dispatched == iter.kind = "dispatch"

\* the line the host sent fits the buffer: 1..63 bytes before the terminator
FitsBuffer(l) == l.junk + Len(l.body) \in 1..(RX_SIZE - 1)

\* the line the host sent has more than 63 bytes before its terminator
Overlong(l) == l.junk + Len(l.body) > RX_SIZE - 1

HasPrefix(s, lit) == Len(s) >= Len(lit) /\ SubSeq(s, 1, Len(lit)) = lit

\* one response line: it ends with "\r\n" and holds no other CR or LF
IsResponseLine(l) ==
    /\ Len(l) >= 2
    /\ l[Len(l) - 1] = CR
    /\ l[Len(l)] = LF
    /\ \A i \in 1..(Len(l) - 2) : l[i] # CR /\ l[i] # LF

\* "1\r\n" and "0\r\n"
Reply1 == <<49, CR, LF>>

Reply0 == <<48, CR, LF>>

\* the bus transactions of the last iteration
Transactions == BusOnly(iter.bus)

\* the 8 data bytes that carry code v on every channel
FrameOfAll(v) == [k \in 1..8 |-> IF k % 2 = 1 THEN (v \div 256) % 16 ELSE v % 256]

(***************************************************************************)
(* C1.  A terminator received while the line buffer is non-empty           *)
(* dispatches the accumulated line exactly once and leaves the buffer      *)
(* empty (rx_index = 0, all bytes zero); a terminator received while the   *)
(* buffer is empty does nothing, so a line ended by "\r\n" is dispatched   *)
(* once, not twice.                                                        *)
(***************************************************************************)
C1_DispatchState ==
    /\ (Dispatched /\ FitsBuffer(sent)) => iter.line = LineText(sent)
    /\ (Dispatched /\ pc = "recv") => (rx_index = 0 /\ rx_buffer = ZeroBuffer)
    /\ (sent # NoLine /\ FitsBuffer(sent)) => nDisp <= 1
    /\ (sent # NoLine /\ FitsBuffer(sent) /\ pc = "recv" /\ wire = <<>>) => nDisp = 1
    /\ iter.kind = "no_line" =>
          (iter.tx = <<>> /\ iter.bus = <<>> /\ rx_index = 0 /\ rx_buffer = ZeroBuffer)

\* the step that receives a terminator with the buffer empty changes nothing
\* but the input it consumed
C1_EmptyTerminatorStep ==
    (pc = "recv" /\ wire # <<>> /\ IsTerminator(Head(wire)) /\ rx_index = 0)
        => UNCHANGED <<pc, rx_buffer, rx_index, adc_handle, heap, dac_out, txInFlight,
                       sent, nDisp, hostRx>>

C1_TerminatorDispatchesOnce == []C1_DispatchState /\ [][C1_EmptyTerminatorStep]_vars

\* a "\r\n" line has been consumed whole: one dispatch, then the empty-buffer
\* terminator
C1_Witness ==
    /\ sent.term = <<CR, LF>>
    /\ pc = "recv"
    /\ wire = <<>>
    /\ nDisp = 1
    /\ iter.kind = "no_line"

(***************************************************************************)
(* C2.  When more than 63 non-terminator bytes arrive before a terminator, *)
(* no response is ever produced for any part of that overlong line,        *)
(* including the bytes between the reset and the line's terminator.        *)
(***************************************************************************)
C2_NoResponseToOverlongLine ==
    (sent # NoLine /\ Overlong(sent)) => (txInFlight = <<>> /\ hostRx = <<>>)

(***************************************************************************)
(* C3.  In every reachable state rx_index is in 0..63, so the byte store   *)
(* and the terminating write stay inside the 64-byte buffer, and every     *)
(* dispatched line has a length between 1 and 63.                          *)
(***************************************************************************)
C3_IndexInBuffer ==
    /\ rx_index \in 0..(RX_SIZE - 1)
    /\ DOMAIN rx_buffer = 0..(RX_SIZE - 1)
    /\ Dispatched => Len(iter.line) \in 1..(RX_SIZE - 1)

\* a line of 63 bytes was dispatched
C3_Witness == Dispatched /\ Len(iter.line) = RX_SIZE - 1

(***************************************************************************)
(* C4.  Each dispatched line produces at most one response line, every     *)
(* response ends with "\r\n", and the response has been handed to the UART *)
(* transmit, which has returned, before the loop consumes the next         *)
(* received byte: no second line is dispatched while a response is         *)
(* outstanding.                                                            *)
(***************************************************************************)
C4_ResponseState ==
    /\ Dispatched => Len(iter.tx) <= 1
    /\ \A i \in 1..Len(iter.tx) : IsResponseLine(iter.tx[i])
    /\ \A i \in 1..Len(txInFlight) : IsResponseLine(txInFlight[i])
    /\ \A i \in 1..Len(hostRx) : IsResponseLine(hostRx[i])
    /\ txInFlight # <<>> => (pc = "tx" /\ Dispatched /\ txInFlight = iter.tx)
    /\ (Dispatched /\ pc = "recv" /\ iter.tx # <<>>) =>
          (Len(hostRx) >= 1 /\ hostRx[Len(hostRx)] = iter.tx[1])
    /\ (sent # NoLine /\ FitsBuffer(sent)) => Len(hostRx) + Len(txInFlight) <= 1

\* the step taken while a response is outstanding is the return of the
\* transmit: it consumes no byte and dispatches nothing
C4_OutstandingStep ==
    txInFlight # <<>> =>
        /\ wire' = wire
        /\ nDisp' = nDisp
        /\ txInFlight' = <<>>
        /\ hostRx' = hostRx \o txInFlight

C4_OneResponseBeforeNextByte == []C4_ResponseState /\ [][C4_OutstandingStep]_vars

\* a response is outstanding while the next byte (the LF of "\r\n") waits
C4_Witness == pc = "tx" /\ txInFlight # <<>> /\ wire = <<LF>>

(***************************************************************************)
(* C5.  A dispatched line is handled by exactly one handler, the first     *)
(* that matches in the order COMM_OK, test_adc, read_adc_raw, read_adc,    *)
(* set_all, fallback; a line beginning "set_all," or "read_adc," never     *)
(* reaches the fallback single-channel DAC write.                          *)
(***************************************************************************)
FirstMatch(line) ==
    IF line = STR_COMM_OK THEN "COMM_OK"
    ELSE IF line = STR_TEST_ADC THEN "test_adc"
    ELSE IF HasPrefix(line, STR_READ_ADC_RAW) THEN "read_adc_raw"
    ELSE IF HasPrefix(line, STR_READ_ADC) THEN "read_adc"
    ELSE IF HasPrefix(line, STR_SET_ALL) THEN "set_all"
    ELSE "channel_value"

\* the functions whose bus calls a handler may cause
CallsOf(handler) ==
    CASE handler = "COMM_OK" -> {}
      [] handler = "test_adc" -> {"ProcessUARTCommand"}
      [] handler \in {"read_adc_raw", "read_adc"} ->
            {"ADS1115_oneShotMeasure", "ADS1115_getData"}
      [] handler = "set_all" -> {"MCP4728_SetAllChannels"}
      [] handler = "channel_value" -> {"MCP4728_WriteChannel"}

C5_FirstMatchingHandler ==
    Dispatched =>
        /\ iter.handler = FirstMatch(iter.line)
        /\ \A i \in 1..Len(iter.bus) : iter.bus[i].fn \in CallsOf(FirstMatch(iter.line))
        /\ (HasPrefix(iter.line, STR_SET_ALL) \/ HasPrefix(iter.line, STR_READ_ADC)) =>
              \A i \in 1..Len(iter.bus) : iter.bus[i].fn # "MCP4728_WriteChannel"

\* a "set_all," line was handled and wrote the DAC with the all-channel write
C5_Witness ==
    /\ Dispatched
    /\ HasPrefix(iter.line, STR_SET_ALL)
    /\ iter.handler = "set_all"
    /\ Len(Transactions) = 1

(***************************************************************************)
(* C6.  Malformed lines (",", "foo,bar", "set_all,", "read_adc,x", a       *)
(* non-numeric channel) are dropped silently: no response and no I2C       *)
(* traffic.                                                                *)
(***************************************************************************)
C6_MalformedDroppedSilently ==
    (Dispatched /\ iter.line \in MalformedLines) =>
        (iter.tx = <<>> /\ Transactions = <<>>)

(***************************************************************************)
(* C7.  A DAC value outside [0,4095] (negative and >= 65536 included) or a *)
(* channel outside [0,3] (>= 256 included) is rejected before any bus      *)
(* transaction.                                                            *)
(***************************************************************************)
OutOfRangeDacLines ==
    {STR_SET_ALL \o FmtD(v) : v \in OutOfRangeValues}
        \cup {PairLine(1, v) : v \in OutOfRangeValues}
        \cup {PairLine(c, 4095) : c \in OutOfRangeChannels}

C7_OutOfRangeRejected ==
    (Dispatched /\ iter.line \in OutOfRangeDacLines) =>
        (Transactions = <<>> /\ iter.tx = <<>>)

(***************************************************************************)
(* C8.  With an out-of-range channel "read_adc,<ch>" produces no response  *)
(* and "read_adc_raw,<ch>" produces exactly "ERROR\r\n"; in both cases no  *)
(* ADC bus transaction is issued and the stored ADC configuration is       *)
(* unchanged.                                                              *)
(***************************************************************************)
C8_OutOfRangeAdcChannel ==
    \A c \in OutOfRangeChannels :
        /\ (Dispatched /\ iter.line = STR_READ_ADC \o FmtD(c)) =>
              (iter.tx = <<>> /\ Transactions = <<>>)
        /\ (Dispatched /\ iter.line = STR_READ_ADC_RAW \o FmtD(c)) =>
              (iter.tx = <<(STR_ERROR \o CRLF)>> /\ Transactions = <<>>)

(***************************************************************************)
(* C9.  For every v in [0,4095], "set_all,v" issues exactly one DAC bus    *)
(* write whose frame carries v for all four channels, and responds "1\r\n" *)
(* if and only if that write reported success, otherwise "0\r\n"; after a  *)
(* successful write the four channel codes of the device all equal v.  (A  *)
(* write that never returns reports nothing, and nothing is answered.)     *)
(***************************************************************************)
C9_SetAllWritesOnce ==
    \A v \in ValidValues :
        (Dispatched /\ iter.line = STR_SET_ALL \o FmtD(v)) =>
            /\ Len(Transactions) = 1
            /\ LET w == Transactions[1]
               IN  /\ w.bus = "I2C1"
                   /\ w.op = "Mem_Write"
                   /\ w.addr = MCP4728_BASEADDR
                   /\ w.mem = MCP4728_CMD_DACWRITE_SEQ
                   /\ w.data = FrameOfAll(v)
                   /\ w.st = "HAL_OK" => (iter.tx = <<Reply1>> /\ dac_out = <<v, v, v, v>>)
                   /\ w.st \in HAL_StatusTypeDef \ {"HAL_OK"} => iter.tx = <<Reply0>>
                   /\ iter.tx = <<Reply1>> => w.st = "HAL_OK"
                   /\ w.st = "HANG" => (iter.tx = <<>> /\ pc = "hung")

\* "set_all,2748" was written and acknowledged
C9_Witness ==
    /\ Dispatched
    /\ iter.line = STR_SET_ALL \o FmtD(2748)
    /\ iter.tx = <<Reply1>>
    /\ dac_out = <<2748, 2748, 2748, 2748>>

\* "set_all,4095" was written and the bus reported a failure
C9_WitnessFailure ==
    /\ Dispatched
    /\ iter.line = STR_SET_ALL \o FmtD(4095)
    /\ iter.tx = <<Reply0>>

(***************************************************************************)
(* C10.  For every channel c in [0,3] and value v in [0,4095], the line    *)
(* "c,v" issues exactly one DAC bus write, made by the single-channel      *)
(* write for channel c with value v, and responds "1\r\n" if and only if   *)
(* the write reported success, otherwise "0\r\n".                          *)
(***************************************************************************)
C10_ChannelValueWritesOnce ==
    \A p \in ValidPairs :
        (Dispatched /\ iter.line = PairLine(p[1], p[2])) =>
            /\ Len(Transactions) = 1
            /\ LET w == Transactions[1]
                   c == p[1]
                   v == p[2]
               IN  /\ w.fn = "MCP4728_WriteChannel"
                   /\ w.bus = "I2C1"
                   /\ w.op = "Mem_Write"
                   /\ w.addr = MCP4728_BASEADDR
                   /\ w.mem = MCP4728_CMD_DACWRITE_SEQ
                   /\ Len(w.data) = 8
                   /\ w.data[2 * c + 1] = (v \div 256) % 16
                   /\ w.data[2 * c + 2] = v % 256
                   /\ w.st = "HAL_OK" => (iter.tx = <<Reply1>> /\ dac_out[c + 1] = v)
                   /\ w.st \in HAL_StatusTypeDef \ {"HAL_OK"} => iter.tx = <<Reply0>>
                   /\ iter.tx = <<Reply1>> => w.st = "HAL_OK"
                   /\ w.st = "HANG" => (iter.tx = <<>> /\ pc = "hung")

\* "2,2748" was written and acknowledged
C10_Witness ==
    /\ Dispatched
    /\ iter.line = PairLine(2, 2748)
    /\ iter.tx = <<Reply1>>
    /\ dac_out[3] = 2748

(***************************************************************************)
(* C11.  Individual channel control: a successful single-channel command   *)
(* "c,v" updates only channel c; the codes of the other three DAC channels *)
(* are the same after the command as before it, whatever commands          *)
(* preceded it.                                                            *)
(***************************************************************************)
C11_OtherChannelsKept ==
    \A p \in ValidPairs :
        (Dispatched /\ iter.line = PairLine(p[1], p[2]) /\ iter.tx = <<Reply1>>) =>
            \A k \in (0..3) \ {p[1]} : dac_out[k + 1] = iter.dacBefore[k + 1]

\* the event is one write of 8 bytes to the sequential-write register of the DAC
IsSequentialWrite(w) ==
    /\ w.bus = "I2C1"
    /\ w.op = "Mem_Write"
    /\ w.addr = MCP4728_BASEADDR
    /\ w.mem = MCP4728_CMD_DACWRITE_SEQ
    /\ Len(w.data) = 8

C13_SetAllChannelsAtomic ==
    call.fn = "MCP4728_SetAllChannels" =>
        LET v == call.args
            new == [i \in 1..4 |-> v[i] % 4096]
        IN  /\ Len(call.bus) = 1
            /\ IsSequentialWrite(call.bus[1])
            /\ \A i \in 0..3 :
                  /\ call.bus[1].data[2 * i + 1] = (v[i + 1] \div 256) % 16
                  /\ call.bus[1].data[2 * i + 2] = v[i + 1] % 256
                  /\ call.bus[1].data[2 * i + 1] <= 15
            /\ dac_out \in {call.dacBefore, new}
            /\ call.status = "HAL_OK" => dac_out = new
            /\ call.status # "HAL_OK" => dac_out = call.dacBefore

\* four different codes written at once, with inputs beyond 12 bits
C13_Witness ==
    /\ call.fn = "MCP4728_SetAllChannels"
    /\ call.args = <<65535, 4096, 61440, 4351>>
    /\ call.status = "HAL_OK"
    /\ call.dacBefore = <<4095, 2748, 256, 255>>
    /\ dac_out = <<4095, 0, 0, 255>>

\* a failed write left the four codes as they were
C13_WitnessFailed ==
    /\ call.fn = "MCP4728_SetAllChannels"
    /\ call.args = <<1, 2, 3, 4>>
    /\ call.status = "HAL_ERROR"
    /\ dac_out = <<4095, 2748, 256, 255>>

(***************************************************************************)
(* C14.  Round trip: for every 4-tuple of values in [0,4095], packing it   *)
(* into the 8-byte DAC frame and unpacking each channel as                 *)
(* (byte[2i] << 8) | byte[2i+1] yields the original 4-tuple.               *)
(***************************************************************************)
Unpack(frame) == [i \in 1..4 |-> BitOr(frame[2 * i - 1] * 256, frame[2 * i])]

C14_FrameRoundTrip ==
    call.fn = "MCP4728_SetAllChannels" =>
        /\ Len(call.bus[1].data) = 8
        /\ Unpack(call.bus[1].data) = call.args

\* a tuple of four different values, one of them with all 12 bits set, was packed
C14_Witness ==
    /\ call.fn = "MCP4728_SetAllChannels"
    /\ call.args = <<4095, 256, 2748, 15>>
    /\ call.bus[1].data = <<15, 255, 1, 0, 10, 188, 0, 15>>

\* the event is the one-byte wake-up sent to the general-call address
IsWakeUp(ev) ==
    /\ ev.bus = "I2C1"
    /\ ev.op = "Master_Transmit"
    /\ ev.addr = 0
    /\ ev.data = <<MCP4728_GENERAL_WAKEUP>>

IsDacWrite(ev) == ev.bus = "I2C1" /\ ev.op = "Mem_Write"

(***************************************************************************)
(* C15.  MCP4728_Init sends the single byte 0x09 to the general-call       *)
(* address 0x00 exactly once and returns the status of that transaction    *)
(* without retrying; on success the 5 ms settling delay has elapsed before *)
(* it returns, so the first DAC channel write of every run comes after the *)
(* wake-up and the delay; on failure no delay and no channel write follow. *)
(***************************************************************************)
C15_WakeUpThenDelay ==
    /\ iter.kind = "startup" =>
          /\ Len(iter.bus) >= 1
          /\ IsWakeUp(iter.bus[1])
          /\ \A i \in 2..Len(iter.bus) : ~IsWakeUp(iter.bus[i])
          /\ iter.bus[1].st # "HAL_OK" => (Len(iter.bus) = 1 /\ pc = "dac_error_loop")
          /\ iter.bus[1].st = "HAL_OK" =>
                /\ Len(iter.bus) = 3
                /\ iter.bus[2] = HAL_Delay(5, "MCP4728_Init")
                /\ IsDacWrite(iter.bus[3])
    /\ pc = "dac_error_loop" => (iter.kind = "startup" /\ dac_out = iter.dacBefore)
    /\ pc = "reset" => iter = NoIter
    /\ Dispatched => \A i \in 1..Len(iter.bus) : ~IsWakeUp(iter.bus[i])

\* start-up went through: wake-up, delay, then the zeroing write
C15_Witness ==
    /\ iter.kind = "startup"
    /\ pc = "recv"
    /\ Len(iter.bus) = 3
    /\ iter.bus[3].st = "HAL_OK"

(***************************************************************************)
(* C16.  If DAC initialization fails at start-up the firmware stays in an  *)
(* idle loop forever: from then on no input byte is consumed, no command   *)
(* is dispatched, no response is sent and no I2C transaction is issued.    *)
(***************************************************************************)
C16_ErrorLoopState ==
    /\ (iter.kind = "startup" /\ iter.bus[1].st # "HAL_OK") => pc = "dac_error_loop"
    /\ pc = "dac_error_loop" =>
          /\ iter.kind = "startup"
          /\ Len(iter.bus) = 1
          /\ nDisp = 0
          /\ hostRx = <<>>
          /\ txInFlight = <<>>
          /\ rx_index = 0
          /\ sent # NoLine => wire = LineText(sent) \o sent.term

C16_ErrorLoopStep ==
    pc = "dac_error_loop" =>
        /\ pc' = "dac_error_loop"
        /\ Len(wire') >= Len(wire)
        /\ UNCHANGED <<rx_buffer, rx_index, adc_handle, heap, dac_out, txInFlight, iter,
                       nDisp, hostRx>>

C16_DacInitFailureIsFinal == []C16_ErrorLoopState /\ [][C16_ErrorLoopStep]_vars

\* the firmware idles after a failed wake-up while a whole line waits unread
C16_Witness ==
    /\ pc = "dac_error_loop"
    /\ sent.body = STR_COMM_OK
    /\ wire = STR_COMM_OK \o sent.term

(***************************************************************************)
(* C17.  ADS1115_init only stores the I2C handle, the address and the      *)
(* configuration: from power-on until the first test_adc, read_adc or      *)
(* read_adc_raw command is dispatched, no transaction occurs on the ADC    *)
(* bus.                                                                    *)
(***************************************************************************)
C17_AdcInitIsLazy ==
    /\ \A i \in 1..Len(iter.bus) :
          iter.bus[i].bus = "I2C2" =>
              (Dispatched /\ iter.handler \in {"test_adc", "read_adc", "read_adc_raw"})
    /\ (iter.kind = "startup" /\ pc = "recv") =>
          /\ adc_handle # "NULL"
          /\ heap = [hi2c |-> "I2C2", address |-> ADS1115_ADDR_GND, config |-> adc_config]

\* start-up is over, the handle is filled in, and the ADC bus was not used
C17_Witness ==
    /\ iter.kind = "startup"
    /\ pc = "recv"
    /\ heap.config = adc_config
    /\ \A i \in 1..Len(iter.bus) : iter.bus[i].bus # "I2C2"

\* the event is a transmit to the device the handle names
IsAdcTransmit(ev, obj, data, tmo) ==
    /\ ev.bus = obj.hi2c
    /\ ev.op = "Master_Transmit"
    /\ ev.addr = obj.address * 2
    /\ ev.data = data
    /\ ev.tmo = tmo

\* the event is a read of two bytes from the device the handle names
IsAdcReceive(ev, obj, tmo) ==
    /\ ev.bus = obj.hi2c
    /\ ev.op = "Master_Receive"
    /\ ev.addr = obj.address * 2
    /\ Len(ev.data) = 2
    /\ ev.tmo = tmo

\* the two bytes that carry a configuration, written out from its fields
ConfigHigh(c) == c.channel * 16 + c.pgaConfig * 2 + c.operatingMode

ConfigLow(c) ==
    c.dataRate * 32 + c.compareMode * 16 + c.polarityMode * 8 + c.latchingMode * 4
        + c.queueComparator

(***************************************************************************)
(* C18.  ADS1115_oneShotMeasure performs its steps in the fixed order:     *)
(* write the 3-byte config frame built from the stored config with the     *)
(* start-conversion bit (bit 7 of frame byte 1) set, wait 15 ms, write the *)
(* 1-byte pointer 0x00, read 2 bytes; if the config write fails it returns *)
(* 0 at once with no delay, no pointer write and no read, and no data read *)
(* happens without a successful config write before it in the same call.   *)
(***************************************************************************)
C18_OneShotOrder ==
    call.fn = "ADS1115_oneShotMeasure" =>
        LET b == call.bus
            o == call.objBefore
        IN  /\ heap = o
            /\ Len(b) >= 1
            /\ IsAdcTransmit(b[1], o, <<1, 128 + ConfigHigh(o.config), ConfigLow(o.config)>>,
                             100)
            /\ b[1].st # "HAL_OK" => (Len(b) = 1 /\ call.value = 0)
            /\ b[1].st = "HAL_OK" =>
                  /\ Len(b) \in {3, 4}
                  /\ b[2] = HAL_Delay(15, "ADS1115_oneShotMeasure")
                  /\ IsAdcTransmit(b[3], o, <<0>>, 50)
                  /\ Len(b) = 4 <=> b[3].st = "HAL_OK"
                  /\ Len(b) = 4 => IsAdcReceive(b[4], o, 50)
            /\ \A i \in 1..Len(b) : b[i].op = "Master_Receive" => (i = 4 /\ b[1].st = "HAL_OK")

\* a whole measurement: config write, delay, pointer write, read of 0xFF 0x9C
C18_Witness ==
    /\ call.fn = "ADS1115_oneShotMeasure"
    /\ Len(call.bus) = 4
    /\ call.bus[4].st = "HAL_OK"
    /\ call.bus[4].data = <<255, 156>>
    /\ call.value = -100

\* the config write failed and nothing followed it
C18_WitnessFailed ==
    /\ call.fn = "ADS1115_oneShotMeasure"
    /\ Len(call.bus) = 1
    /\ call.bus[1].st = "HAL_TIMEOUT"

(***************************************************************************)
(* C19.  ADS1115_getData writes the 1-byte pointer 0x00 and then reads 2   *)
(* bytes; for every byte pair (b0,b1) read successfully it returns the     *)
(* two's-complement signed 16-bit value of b0*256+b1 (0xFF,0x9C gives      *)
(* -100); it returns 0 if either step fails, and the read is not attempted *)
(* when the pointer write fails.                                           *)
(***************************************************************************)
C19_GetDataValue ==
    call.fn = "ADS1115_getData" =>
        LET b == call.bus
            o == call.objBefore
        IN  /\ heap = o
            /\ Len(b) \in {1, 2}
            /\ IsAdcTransmit(b[1], o, <<0>>, 50)
            /\ Len(b) = 2 <=> b[1].st = "HAL_OK"
            /\ b[1].st # "HAL_OK" => call.value = 0
            /\ Len(b) = 2 =>
                  /\ IsAdcReceive(b[2], o, 50)
                  /\ b[2].st # "HAL_OK" => call.value = 0
                  /\ b[2].st = "HAL_OK" =>
                        LET u == b[2].data[1] * 256 + b[2].data[2]
                        IN  call.value = IF u >= 32768 THEN u - 65536 ELSE u

\* the bytes 0xFF 0x9C were read and -100 returned
C19_Witness ==
    /\ call.fn = "ADS1115_getData"
    /\ Len(call.bus) = 2
    /\ call.bus[2].st = "HAL_OK"
    /\ call.bus[2].data = <<255, 156>>
    /\ call.value = -100

(***************************************************************************)
(* C20.  ADS1115_startContinousMode sets the operating-mode field of the   *)
(* stored config of the handle to continuous and pushes the resulting      *)
(* frame; ADS1115_stopContinousMode sets it to single-shot and pushes it;  *)
(* so after ADS1115_startContinousMode the stored config, and any frame    *)
(* rebuilt from it later, has the continuous mode.                         *)
(***************************************************************************)
C20_ModeStoredInHandle ==
    /\ call.fn = "ADS1115_startContinousMode" =>
          /\ heap.config = [call.objBefore.config EXCEPT !.operatingMode = MODE_CONTINOUS]
          /\ Len(call.bus) = 1
          /\ IsAdcTransmit(call.bus[1], heap,
                           <<1, ConfigHigh(heap.config), ConfigLow(heap.config)>>, 100)
    /\ call.fn = "ADS1115_stopContinousMode" =>
          /\ heap.config = [call.objBefore.config EXCEPT !.operatingMode = MODE_SINGLE_SHOT]
          /\ Len(call.bus) = 1
          /\ IsAdcTransmit(call.bus[1], heap,
                           <<1, ConfigHigh(heap.config), ConfigLow(heap.config)>>, 100)

(***************************************************************************)
(* C21.  ADS1115_updateConfig(config) replaces the stored config of the    *)
(* handle with config and issues exactly one 3-byte write <<0x01, packed   *)
(* byte 1, packed byte 2>> built from it, with the start-conversion bit    *)
(* (bit 7 of byte 1) clear; the stored config is replaced also when the    *)
(* write fails, and nothing is returned.                                   *)
(***************************************************************************)
C21_UpdateConfigStoresAndWrites ==
    call.fn = "ADS1115_updateConfig" =>
        LET config == call.args[1]
        IN  /\ heap = [call.objBefore EXCEPT !.config = config]
            /\ Len(call.bus) = 1
            /\ IsAdcTransmit(call.bus[1], heap,
                             <<1, ConfigHigh(config), ConfigLow(config)>>, 100)
            /\ call.bus[1].data[2] < 128
            /\ call.status = "none" /\ call.value = 0

\* a different config was stored although the bus write failed
C21_Witness ==
    /\ call.fn = "ADS1115_updateConfig"
    /\ call.bus[1].st # "HAL_OK"
    /\ call.objBefore.config # call.args[1]
    /\ heap.config = call.args[1]

\* value as two bytes, most significant first, of its 16-bit two's complement
BigEndian16(value) ==
    LET u == IF value < 0 THEN value + 65536 ELSE value
    IN  <<u \div 256, u % 256>>

(***************************************************************************)
(* C22.  ADS1115_setThresholds(low, high) issues exactly two 3-byte        *)
(* writes, first to the high-threshold register (0x03) and then to the     *)
(* low-threshold register (0x02), each carrying its value big-endian, also *)
(* when the value is negative; the low-threshold write is issued whether   *)
(* or not the high-threshold write succeeded.                              *)
(***************************************************************************)
C22_ThresholdWrites ==
    call.fn = "ADS1115_setThresholds" =>
        LET b == call.bus
            o == call.objBefore
        IN  /\ heap = o
            /\ Len(b) = 2
            /\ IsAdcTransmit(b[1], o, <<3>> \o BigEndian16(call.args[2]), 100)
            /\ IsAdcTransmit(b[2], o, <<2>> \o BigEndian16(call.args[1]), 100)

\* a negative low threshold was written after the high-threshold write failed
C22_Witness ==
    /\ call.fn = "ADS1115_setThresholds"
    /\ call.args = <<-100, 100>>
    /\ Len(call.bus) = 2
    /\ call.bus[1].st # "HAL_OK"
    /\ call.bus[2].data = <<2, 255, 156>>

\* one uppercase hexadecimal digit, and a byte as two of them
UpperHexDigit(d) == IF d < 10 THEN 48 + d ELSE 65 + (d - 10)

UpperHex2(b) == <<UpperHexDigit(b \div 16), UpperHexDigit(b % 16)>>

\* "0", "1", "2", "3": the HAL status printed with %d
StatusDigit(st) ==
    CASE st = "HAL_OK" -> <<48>>
      [] st = "HAL_ERROR" -> <<49>>
      [] st = "HAL_BUSY" -> <<50>>
      [] st = "HAL_TIMEOUT" -> <<51>>

(***************************************************************************)
(* C23.  test_adc writes the pointer 0x01 to the ADC and reads 2 bytes; it *)
(* responds "OK:0x" and the two bytes as 4 uppercase hex digits if and     *)
(* only if both bus steps succeeded, and "ERROR:I2C_FAIL:s1,s2" with the   *)
(* two statuses otherwise; the read is attempted also when the pointer     *)
(* write failed; the stored ADC config and the DAC are left unchanged.     *)
(***************************************************************************)
C23_TestAdcState ==
    (Dispatched /\ iter.handler = "test_adc") =>
        LET b == iter.bus
        IN  /\ Len(b) = 2
            /\ b[1].bus = "I2C2" /\ b[1].op = "Master_Transmit"
            /\ b[1].addr = 2 * ADS1115_ADDR_GND /\ b[1].data = <<1>>
            /\ b[2].bus = "I2C2" /\ b[2].op = "Master_Receive"
            /\ b[2].addr = 2 * ADS1115_ADDR_GND /\ Len(b[2].data) = 2
            /\ Len(iter.tx) = 1
            /\ (b[1].st = "HAL_OK" /\ b[2].st = "HAL_OK") =>
                  iter.tx[1] = STR_OK_0X \o UpperHex2(b[2].data[1])
                                         \o UpperHex2(b[2].data[2]) \o <<CR, LF>>
            /\ ~(b[1].st = "HAL_OK" /\ b[2].st = "HAL_OK") =>
                  iter.tx[1] = STR_I2C_FAIL \o StatusDigit(b[1].st) \o <<COMMA>>
                                            \o StatusDigit(b[2].st) \o <<CR, LF>>
            /\ dac_out = iter.dacBefore

C23_TestAdcStep ==
    (pc = "recv" /\ Dispatched' /\ iter'.handler = "test_adc" /\ nDisp' # nDisp) =>
        (heap' = heap /\ dac_out' = dac_out /\ adc_handle' = adc_handle)

C23_TestAdcProbe == []C23_TestAdcState /\ [][C23_TestAdcStep]_vars

\* the probe answered "OK:0xFF9C" on a handle whose channel a read had changed
C23_Witness ==
    /\ Dispatched /\ iter.handler = "test_adc"
    /\ iter.tx = <<(STR_OK_0X \o <<70, 70, 57, 67, CR, LF>>)>>
    /\ heap.config # adc_config

\* the read was issued after the pointer write had failed
C23_WitnessFailed ==
    /\ Dispatched /\ iter.handler = "test_adc"
    /\ iter.bus[1].st = "HAL_TIMEOUT"
    /\ Len(iter.bus) = 2
    /\ iter.tx = <<(STR_I2C_FAIL \o <<51, COMMA, 48, CR, LF>>)>>

\* the raw code a one-shot measurement returns, read off its bus events:
\* the two bytes read as a signed 16-bit number, 0 unless every step succeeded
RawCodeOf(b) ==
    IF Len(b) = 4 /\ \A i \in 1..4 : b[i].st = "HAL_OK"
    THEN LET u == b[4].data[1] * 256 + b[4].data[2]
         IN  IF u >= 32768 THEN u - 65536 ELSE u
    ELSE 0

(***************************************************************************)
(* C24.  For every channel c in 0..3, "read_adc_raw,c" and "read_adc,c"    *)
(* store the mux selector AINc-vs-GND (4 + c) in the config of the handle  *)
(* before measuring, so that the config frame written to the ADC is        *)
(* <<0x01, 0xC1 + 0x10 * c, 0x83>>; read_adc_raw responds with the signed  *)
(* decimal of the raw code that one-shot measurement returned.             *)
(***************************************************************************)
C24_ChannelSelectsMux ==
    \A c \in 0..3 :
        LET raw == STR_READ_ADC_RAW \o <<48 + c>>
            volt == STR_READ_ADC \o <<48 + c>>
        IN  (Dispatched /\ iter.line \in {raw, volt}) =>
                /\ heap.config.channel = 4 + c
                /\ Len(iter.bus) >= 1
                /\ iter.bus[1].op = "Master_Transmit"
                /\ iter.bus[1].bus = "I2C2"
                /\ iter.bus[1].addr = 2 * ADS1115_ADDR_GND
                /\ iter.bus[1].data = <<1, 193 + 16 * c, 131>>
                /\ iter.line = raw => iter.tx = <<(FmtD(RawCodeOf(iter.bus)) \o <<CR, LF>>)>>

\* "read_adc_raw,2" wrote <<0x01, 0xE1, 0x83>> and answered "-100"
C24_Witness ==
    /\ Dispatched
    /\ iter.line = STR_READ_ADC_RAW \o <<50>>
    /\ iter.bus[1].data = <<1, 225, 131>>
    /\ iter.tx = <<(<<45, 49, 48, 48, CR, LF>>)>>

\* "read_adc,3" wrote <<0x01, 0xF1, 0x83>>
C24_WitnessVoltage ==
    /\ Dispatched
    /\ iter.line = STR_READ_ADC \o <<51>>
    /\ iter.bus[1].data = <<1, 241, 131>>
    /\ heap.config.channel = ADS1115_MUX_AIN3_GND

\* the number of ten-thousandths a response "d.dddd\r\n" states
TenThousandthsOf(t) ==
    (t[1] - 48) * 10000 + (t[3] - 48) * 1000 + (t[4] - 48) * 100 + (t[5] - 48) * 10
        + (t[6] - 48)

\* the ten-thousandths of a volt reported for the raw code r
ReportedFor(r) == TenThousandths(ClampVoltage(VoltageOfRaw(r)))

(***************************************************************************)
(* C25.  The voltage read_adc reports for the signed 16-bit raw code r is  *)
(* r * 6.144 / 32768 (187.5 microvolts, that is 15/8 of a ten-thousandth   *)
(* of a volt, per count) clamped to [0, 5], to the four decimals of the    *)
(* response: it is 0 for every r <= 0, 3.072 for r = 16384, 5 for every r  *)
(* whose unclamped value exceeds 5 (15 * r > 8 * 50000), and it does not   *)
(* decrease when r grows.                                                  *)
(***************************************************************************)
C25_VoltageConversion ==
    call.fn = "ADS1115_ReadVoltage" =>
        LET r == RawCodeOf(call.bus)
            t == txInFlight[1]
            T == TenThousandthsOf(t)
        IN  /\ Len(txInFlight) = 1
            /\ Len(t) = 8 /\ t[2] = 46 /\ t[7] = CR /\ t[8] = LF
            /\ \A i \in {1, 3, 4, 5, 6} : t[i] \in 48..57
            /\ r <= 0 => (call.value.q = 0 /\ T = 0)
            /\ r = 16384 => T = 30720
            /\ 15 * r > 8 * 50000 => (call.value = F32Five /\ T = 50000)
            /\ (r > 0 /\ 15 * r <= 8 * 50000) =>
                  (8 * T - 15 * r <= 4 /\ 15 * r - 8 * T <= 4)
            /\ r > -32768 => ReportedFor(r - 1) <= T

\* "3.0720" was reported for the bytes 0x40 0x00
C25_Witness ==
    /\ call.fn = "ADS1115_ReadVoltage"
    /\ RawCodeOf(call.bus) = 16384
    /\ txInFlight = <<(<<51, 46, 48, 55, 50, 48, CR, LF>>)>>

\* "0.0000" was reported for -100, "5.0000" for 32767
C25_WitnessLow ==
    /\ call.fn = "ADS1115_ReadVoltage"
    /\ RawCodeOf(call.bus) = -100
    /\ txInFlight = <<(<<48, 46, 48, 48, 48, 48, CR, LF>>)>>

C25_WitnessHigh ==
    /\ call.fn = "ADS1115_ReadVoltage"
    /\ RawCodeOf(call.bus) = 32767
    /\ txInFlight = <<(<<53, 46, 48, 48, 48, 48, CR, LF>>)>>

\* no transaction of t is issued a second time: two writes differ in what
\* they write, and there is at most one read
NoRepeat(t) ==
    \A i \in 1..Len(t) : \A j \in (i + 1)..Len(t) :
        \/ t[i].op # t[j].op
        \/ (t[i].op # "Master_Receive" /\ t[i].data # t[j].data)

\* some transaction of t returned a failure status
SomeFailed(t) == \E i \in 1..Len(t) : t[i].st \in {"HAL_ERROR", "HAL_BUSY", "HAL_TIMEOUT"}

(***************************************************************************)
(* C26.  No bus transaction is retried: within one dispatched command each *)
(* I2C transaction is attempted at most once.  COMM_OK issues none, a      *)
(* valid set_all or channel,value exactly one DAC write, test_adc exactly  *)
(* two ADC transactions, read_adc and read_adc_raw at most three (config   *)
(* write, pointer write, read); a failure shows only in the one response   *)
(* of the command, after which the handler returns as usual.               *)
(***************************************************************************)
C26_NoRetry ==
    Dispatched =>
        LET t == Transactions
        IN  /\ NoRepeat(t)
            /\ iter.handler = "COMM_OK" => Len(t) = 0
            /\ iter.handler \in {"set_all", "channel_value"} =>
                  /\ Len(t) <= 1
                  /\ \A i \in 1..Len(t) : t[i].op = "Mem_Write" /\ t[i].bus = "I2C1"
            /\ iter.line \in {STR_SET_ALL \o FmtD(v) : v \in ValidValues} => Len(t) = 1
            /\ iter.line \in {PairLine(p[1], p[2]) : p \in ValidPairs} => Len(t) = 1
            /\ iter.handler = "test_adc" => Len(t) = 2
            /\ iter.handler \in {"read_adc", "read_adc_raw"} =>
                  /\ Len(t) <= 3
                  /\ \A i \in 1..Len(t) : t[i].bus = "I2C2"
                  /\ \A i \in 1..(Len(t) - 1) : t[i].st = "HAL_OK"
            /\ SomeFailed(t) =>
                  /\ Len(iter.tx) = 1
                  /\ IsResponseLine(iter.tx[1])
                  /\ pc \in {"tx", "recv"}

\* a set_all whose single write failed answered "0" and returned
C26_Witness ==
    /\ Dispatched /\ iter.handler = "set_all"
    /\ Len(Transactions) = 1
    /\ SomeFailed(Transactions)
    /\ iter.tx = <<Reply0>>
    /\ pc = "recv"

\* a read_adc_raw whose pointer write failed stopped after two transactions
C26_WitnessAdc ==
    /\ Dispatched /\ iter.handler = "read_adc_raw"
    /\ Len(Transactions) = 2
    /\ Transactions[2].st = "HAL_ERROR"

(***************************************************************************)
(* C27.  A hung I2C transaction stalls the protocol only until its timeout *)
(* elapses: after every dispatched command, set_all and channel,value with *)
(* their HAL_MAX_DELAY writes included, the handler eventually returns and *)
(* the loop is receiving again with an empty buffer.                       *)
(***************************************************************************)
C27_HandlerReturns ==
    Dispatched ~> (pc = "recv" /\ rx_index = 0 /\ rx_buffer = ZeroBuffer)

\* every step of the measurement succeeded and the device returned the code 0
GenuineZero(t) ==
    /\ Len(t) = 3
    /\ \A i \in 1..3 : t[i].st = "HAL_OK"
    /\ t[3].data = <<0, 0>>

\* "0.0000\r\n"
ReplyZeroVolt == <<48, 46, 48, 48, 48, 48, CR, LF>>

(***************************************************************************)
(* C28.  For a valid channel, read_adc_raw and read_adc always produce     *)
(* exactly one response, and a run in which an ADC bus step fails gets the *)
(* same response ("0\r\n", respectively "0.0000\r\n") as a run in which    *)
(* the device returns a genuine raw code of 0: the response does not tell  *)
(* the two apart.                                                          *)
(***************************************************************************)
C28_ZeroIsAmbiguous ==
    \A c \in 0..3 :
        /\ (Dispatched /\ iter.line = STR_READ_ADC_RAW \o <<48 + c>>) =>
              /\ Len(iter.tx) = 1
              /\ IsResponseLine(iter.tx[1])
              /\ (SomeFailed(Transactions) \/ GenuineZero(Transactions)) =>
                    iter.tx[1] = Reply0
        /\ (Dispatched /\ iter.line = STR_READ_ADC \o <<48 + c>>) =>
              /\ Len(iter.tx) = 1
              /\ IsResponseLine(iter.tx[1])
              /\ (SomeFailed(Transactions) \/ GenuineZero(Transactions)) =>
                    iter.tx[1] = ReplyZeroVolt

\* a read_adc_raw whose config write failed answered "0"
C28_Witness ==
    /\ Dispatched /\ iter.line = STR_READ_ADC_RAW \o <<49>>
    /\ Len(Transactions) = 1 /\ SomeFailed(Transactions)
    /\ iter.tx = <<Reply0>>

\* so did one that read the code 0
C28_WitnessGenuine ==
    /\ Dispatched /\ iter.line = STR_READ_ADC_RAW \o <<49>>
    /\ GenuineZero(Transactions)
    /\ iter.tx = <<Reply0>>

\* a read_adc whose read failed, and one that read the code 0, answered "0.0000"
C28_WitnessVoltFailed ==
    /\ Dispatched /\ iter.line = STR_READ_ADC \o <<50>>
    /\ Len(Transactions) = 3 /\ SomeFailed(Transactions)
    /\ iter.tx = <<ReplyZeroVolt>>

C28_WitnessVoltGenuine ==
    /\ Dispatched /\ iter.line = STR_READ_ADC \o <<50>>
    /\ GenuineZero(Transactions)
    /\ iter.tx = <<ReplyZeroVolt>>

(***************************************************************************)
(* C29.  If the allocation in ADS1115_init yields NULL at start-up, the    *)
(* firmware reaches the idle loop (the while (1) after adc_handle == NULL) *)
(* without writing through the null handle, and never dispatches a         *)
(* command.                                                                *)
(***************************************************************************)
C29_NullHandleReachesIdleLoop ==
    (adc_handle = "NULL" /\ pc \notin {"reset", "dac_error_loop", "hung"}) =>
        (pc = "adc_error_loop" /\ heap = NoObject /\ nDisp = 0 /\ ~Dispatched)

\* the fields read back from the two packed bytes, each from its bit range
UnpackConfig(hi, lo) ==
    [channel |-> (hi \div 16) % 8, pgaConfig |-> (hi \div 2) % 8, operatingMode |-> hi % 2,
     dataRate |-> (lo \div 32) % 8, compareMode |-> (lo \div 16) % 2,
     polarityMode |-> (lo \div 8) % 2, latchingMode |-> (lo \div 4) % 2,
     queueComparator |-> lo % 4]

(***************************************************************************)
(* C30.  prepareConfigFrame places the fields in disjoint bit ranges for   *)
(* all in-range enum values (byte 1: mux<<4 | pga<<1 | mode; byte 2:       *)
(* dataRate<<5 | compareMode<<4 | polarity<<3 | latching<<2 | queue): the  *)
(* fields can be read back from the frame, so distinct configs give        *)
(* distinct frames; byte 0 is always 0x01; bit 7 of byte 1 (start          *)
(* conversion) is never set by the packing, only by                        *)
(* ADS1115_oneShotMeasure.                                                 *)
(***************************************************************************)
C30_ConfigPacking ==
    /\ call.fn = "ADS1115_updateConfig" =>
          LET f == call.bus[1].data
          IN  /\ Len(f) = 3
              /\ f[1] = 1
              /\ f[2] \in 0..127
              /\ f[3] \in 0..255
              /\ UnpackConfig(f[2], f[3]) = call.args[1]
    /\ call.fn = "ADS1115_oneShotMeasure" =>
          LET f == call.bus[1].data
          IN  /\ f[1] = 1
              /\ f[2] \in 128..255
              /\ UnpackConfig(f[2] - 128, f[3]) = heap.config

\* the config with every field at its largest value was packed as 0x7B 0xFF
C30_Witness ==
    /\ call.fn = "ADS1115_updateConfig"
    /\ call.args[1] = [channel |-> 7, pgaConfig |-> 5, operatingMode |-> 1, dataRate |-> 7,
                       compareMode |-> 1, polarityMode |-> 1, latchingMode |-> 1,
                       queueComparator |-> 3]
    /\ call.bus[1].data = <<1, 123, 255>>

\* and the measurement that followed wrote it with bit 7 set
C30_WitnessMeasure ==
    /\ call.fn = "ADS1115_oneShotMeasure"
    /\ heap.config.pgaConfig = 5 /\ heap.config.channel = 7 /\ heap.config.operatingMode = 1
    /\ call.bus[1].data[2] = 251

\* the last k elements of the sequence t
LastBytes(t, k) == SubSeq(t, Len(t) - k + 1, Len(t))

(***************************************************************************)
(* C31.  When a non-terminator byte arrives while 63 bytes are buffered,   *)
(* the buffer and the index are cleared and that byte is not stored;       *)
(* accumulation restarts at index 0 with the following byte.  So of an     *)
(* unterminated run of 64 + k non-terminator bytes (1 <= k <= 63) followed *)
(* by a terminator, exactly the last k bytes are dispatched as a line.     *)
(***************************************************************************)
C31_TailState ==
    \A k \in 1..(RX_SIZE - 1) :
        (sent # NoLine /\ Len(LineText(sent)) = RX_SIZE + k) =>
            /\ nDisp <= 1
            /\ Dispatched => iter.line = LastBytes(LineText(sent), k)
            /\ (pc = "recv" /\ wire = <<>> /\ iter.kind # "none") => nDisp = 1

C31_OverflowStep ==
    (pc = "recv" /\ wire # <<>> /\ ~IsTerminator(Head(wire))) =>
        /\ rx_index = RX_SIZE - 1 => (rx_index' = 0 /\ rx_buffer' = ZeroBuffer)
        /\ rx_index = 0 =>
              (rx_index' = 1 /\ rx_buffer' = [ZeroBuffer EXCEPT ![0] = Head(wire)])

C31_RestartAfterOverflow == []C31_TailState /\ [][C31_OverflowStep]_vars

\* the last 63 bytes of a run of 127 were dispatched
C31_Witness ==
    /\ Dispatched
    /\ Len(LineText(sent)) = 2 * RX_SIZE - 1
    /\ Len(iter.line) = RX_SIZE - 1

\* the 8 bytes "xCOMM_OK" that followed the reset were dispatched
C31_WitnessShort ==
    /\ Dispatched
    /\ Len(LineText(sent)) = RX_SIZE + 8
    /\ iter.line = <<120>> \o STR_COMM_OK

\* the four codes are all equal, or at most one of them is not zero
EqualOrSingle(c) ==
    \/ \A i \in 1..4 : c[i] = c[1]
    \/ \E i \in 1..4 : \A j \in (1..4) \ {i} : c[j] = 0

(***************************************************************************)
(* C32.  In every state reachable after the start-up zeroing succeeded,    *)
(* the four DAC channel codes last successfully written are either all     *)
(* equal or have at most one nonzero channel: no sequence of protocol      *)
(* commands leaves two channels holding different nonzero codes.  (The     *)
(* zeroing establishes it, every step preserves it, and every step that    *)
(* changes the codes establishes it.)                                      *)
(***************************************************************************)
C32_ZeroedAtStartup ==
    (iter.kind = "startup" /\ Len(iter.bus) = 3 /\ iter.bus[3].st = "HAL_OK") =>
        dac_out = <<0, 0, 0, 0>>

C32_CodesStep ==
    /\ EqualOrSingle(dac_out) => EqualOrSingle(dac_out')
    /\ dac_out' # dac_out => EqualOrSingle(dac_out')

C32_WitnessNotZeroed ==
    /\ pc = "recv"
    /\ dac_out = <<100, 200, 300, 400>>

\* "read_adc_raw,c" and "read_adc,c"
ReadLines(c) == {STR_READ_ADC_RAW \o <<48 + c>>, STR_READ_ADC \o <<48 + c>>}

ValidReadLines == UNION {ReadLines(c) : c \in 0..3}

(***************************************************************************)
(* C33.  After any sequence of commands the stored ADC config of the       *)
(* handle has its mux field in {AIN0_GND, ..., AIN3_GND}, equal to the     *)
(* channel of the most recent valid read_adc / read_adc_raw, or AIN0_GND   *)
(* if there was none, and every other field (gain, single-shot mode, data  *)
(* rate, comparator settings) equals its start-up value; the               *)
(* start-conversion bit is never stored.  (The config is adc_config when   *)
(* the loop is entered, a valid read of channel c stores 4 + c, and no     *)
(* other step changes the config.)                                         *)
(***************************************************************************)
C33_ConfigState ==
    /\ adc_handle # "NULL" =>
          /\ heap.config.channel \in {ADS1115_MUX_AIN0_GND, ADS1115_MUX_AIN1_GND,
                                      ADS1115_MUX_AIN2_GND, ADS1115_MUX_AIN3_GND}
          /\ [heap.config EXCEPT !.channel = ADS1115_MUX_AIN0_GND] = adc_config
          /\ ConfigHigh(heap.config) < 128
    /\ (iter.kind = "startup" /\ pc = "recv") => heap.config = adc_config

C33_ConfigStep ==
    pc # "reset" =>
        IF nDisp' # nDisp /\ Dispatched' /\ iter'.line \in ValidReadLines
        THEN \A c \in 0..3 : iter'.line \in ReadLines(c) => heap'.config.channel = 4 + c
        ELSE heap' = heap

C33_MuxFollowsValidReads == []C33_ConfigState /\ [][C33_ConfigStep]_vars

(***************************************************************************)
(* C34.  Whenever the command loop is running the ADC handle is non-null,  *)
(* so the responses "ERROR:ADC_NOT_INIT" (test_adc) and "ERROR" for an     *)
(* unavailable ADC are never produced: read_adc_raw answers "ERROR" only   *)
(* for a channel argument outside [0,3].                                   *)
(***************************************************************************)
C34_HandleNeverNull ==
    /\ pc \in {"recv", "tx"} => adc_handle # "NULL"
    /\ Dispatched =>
          /\ adc_handle # "NULL"
          /\ \A i \in 1..Len(iter.tx) : ~HasPrefix(iter.tx[i], STR_ADC_NOT_INIT)
          /\ (\E i \in 1..Len(iter.tx) : HasPrefix(iter.tx[i], STR_ERROR \o <<CR>>)) =>
                /\ iter.handler = "read_adc_raw"
                /\ iter.line \in {STR_READ_ADC_RAW \o FmtD(c) : c \in OutOfRangeChannels}
                /\ iter.bus = <<>>
    /\ \A i \in 1..Len(hostRx) : ~HasPrefix(hostRx[i], STR_ADC_NOT_INIT)

\* "read_adc_raw,5" was answered "ERROR"
C34_Witness ==
    /\ Dispatched
    /\ iter.line = STR_READ_ADC_RAW \o <<53>>
    /\ iter.tx = <<(STR_ERROR \o <<CR, LF>>)>>
    /\ adc_handle = "H0"

\* test_adc was dispatched and answered from the bus
C34_WitnessTestAdc ==
    /\ Dispatched /\ iter.handler = "test_adc"
    /\ Len(iter.bus) = 2
    /\ adc_handle = "H0"

\* a successful write of the single byte 0x00 to the ADC: the pointer write
IsPointerWriteToConversion(ev) ==
    /\ ev.bus = "I2C2"
    /\ ev.op = "Master_Transmit"
    /\ ev.addr = ADS1115_ADDR_GND * 2
    /\ ev.data = <<0>>
    /\ ev.st = "HAL_OK"

\* the register the ADC's pointer selects when event i of a handler is issued
PointerAtEvent(i) == AdcPointerAfter(iter.ptrBefore, SubSeq(iter.bus, 1, i - 1))

(***************************************************************************)
(* C35.  Every 2-byte read that read_adc or read_adc_raw uses as a         *)
(* conversion result is immediately preceded, in the same command, by a    *)
(* successful pointer write of 0x00, so the device's pointer selects the   *)
(* conversion register (0) at that read wherever an earlier command, such  *)
(* as test_adc, had left it.                                               *)
(***************************************************************************)
C35_ReadFollowsPointerWrite ==
    (iter.kind = "dispatch" /\ iter.handler \in {"read_adc", "read_adc_raw"}) =>
        \A i \in 1..Len(iter.bus) :
            iter.bus[i].op = "Master_Receive" =>
                /\ i > 1
                /\ IsPointerWriteToConversion(iter.bus[i - 1])
                /\ PointerAtEvent(i) = 0
                /\ i = Len(iter.bus)
                /\ adc_pointer = 0

\* read_adc measured although test_adc had left the pointer at the config register
C35_Witness ==
    /\ iter.kind = "dispatch"
    /\ iter.handler = "read_adc"
    /\ iter.ptrBefore = 1
    /\ Len(iter.bus) = 4
    /\ iter.bus[4].op = "Master_Receive"
    /\ iter.bus[4].st = "HAL_OK"
    /\ iter.bus[4].data = <<255, 156>>
    /\ PointerAtEvent(3) = 1
    /\ adc_pointer = 0

\* read_adc_raw whose pointer write failed: no read follows, the pointer stays
C35_WitnessNoRead ==
    /\ iter.kind = "dispatch"
    /\ iter.handler = "read_adc_raw"
    /\ iter.bus # <<>>
    /\ iter.bus[Len(iter.bus)].data = <<0>>
    /\ iter.bus[Len(iter.bus)].st # "HAL_OK"
    /\ \A i \in 1..Len(iter.bus) : iter.bus[i].op # "Master_Receive"
    /\ adc_pointer = 1

\* the handlers that talk to the ADC, and those that talk to the DAC
AdcHandlers == {"test_adc", "read_adc", "read_adc_raw"}

DacHandlers == {"set_all", "channel_value"}

\* no event of the handler that just ran is a transaction on the bus named
NoTransactionOn(bus) == \A i \in 1..Len(iter.bus) : iter.bus[i].bus # bus

(***************************************************************************)
(* C36.  The two devices are isolated: test_adc, read_adc and read_adc_raw *)
(* issue no transaction on the DAC bus (I2C1) and leave the DAC channel    *)
(* codes unchanged; set_all and <ch>,<v> issue no transaction on the ADC   *)
(* bus (I2C2) and leave the stored ADC config (and the device's pointer)   *)
(* unchanged; COMM_OK issues no bus transaction at all and changes neither *)
(* the DAC codes nor the stored config nor the pointer.                    *)
(***************************************************************************)
C36_BusesState ==
    Dispatched =>
        /\ iter.handler \in AdcHandlers =>
              (NoTransactionOn("I2C1") /\ dac_out = iter.dacBefore)
        /\ iter.handler \in DacHandlers =>
              (NoTransactionOn("I2C2") /\ adc_pointer = iter.ptrBefore)
        /\ iter.handler = "COMM_OK" =>
              (iter.bus = <<>> /\ dac_out = iter.dacBefore /\ adc_pointer = iter.ptrBefore)

C36_ConfigStep ==
    (iter'.kind = "dispatch" /\ iter' # iter
     /\ iter'.handler \in DacHandlers \cup {"COMM_OK"}) =>
        (heap' = heap /\ adc_handle' = adc_handle)

C36_DevicesIsolated == []C36_BusesState /\ [][C36_ConfigStep]_vars

\* a measurement with the DAC holding its codes, and a DAC update with the
\* ADC's channel selection and pointer as the reads left them
C36_Witness ==
    /\ Dispatched
    /\ iter.handler = "read_adc"
    /\ Len(iter.bus) = 4
    /\ dac_out = <<0, 0, 2748, 0>>

C36_WitnessDac ==
    /\ Dispatched
    /\ iter.handler = "set_all"
    /\ iter.bus # <<>>
    /\ dac_out # iter.dacBefore
    /\ heap.config.channel = ADS1115_MUX_AIN3_GND
    /\ adc_pointer = 1

C36_WitnessCommOk ==
    /\ Dispatched
    /\ iter.handler = "COMM_OK"
    /\ dac_out = <<0, 0, 2748, 0>>
    /\ adc_pointer = 1

\* the single sequential write of the frame that zeroes the four channels
IsZeroingWrite(ev) ==
    /\ ev.bus = "I2C1"
    /\ ev.op = "Mem_Write"
    /\ ev.addr = MCP4728_BASEADDR
    /\ ev.mem = MCP4728_CMD_DACWRITE_SEQ
    /\ ev.data = <<0, 0, 0, 0, 0, 0, 0, 0>>

(***************************************************************************)
(* C37.  At start-up, after a successful DAC wake-up, exactly one all-zero *)
(* 4-channel frame is written, before any input byte is consumed.  The     *)
(* status it returns is ignored: whichever status the zeroing write        *)
(* returns, start-up goes on to the ADC handle and, the handle obtained,   *)
(* enters the command loop; of the two DAC writes only a failed wake-up    *)
(* leads to the DAC error loop.  (A zeroing write that never returns       *)
(* returns no status: start-up stays inside it.)                           *)
(***************************************************************************)
C37_ZeroingState ==
    iter.kind = "startup" =>
        /\ nDisp = 0 /\ hostRx = <<>> /\ rx_index = 0 /\ rx_buffer = ZeroBuffer
        /\ sent # NoLine => wire = LineText(sent) \o sent.term
        /\ pc = "dac_error_loop" <=> iter.bus[1].st # "HAL_OK"
        /\ iter.bus[1].st = "HAL_OK" =>
              /\ Len(iter.bus) = 3
              /\ iter.bus[2] = HAL_Delay(5, "MCP4728_Init")
              /\ IsZeroingWrite(iter.bus[3])
              /\ pc = "hung" <=> iter.bus[3].st = "HANG"
              /\ (iter.bus[3].st \in HAL_StatusTypeDef /\ adc_handle # "NULL") => pc = "recv"
              /\ (iter.bus[3].st \in HAL_StatusTypeDef /\ adc_handle = "NULL") =>
                    pc \in {"adc_error_loop", "fault"}

\* a byte is taken off the serial line only in the command loop, which is
\* entered from reset only by a start-up that wrote the zeroing frame
C37_ZeroingStep ==
    /\ Len(wire') < Len(wire) => pc = "recv"
    /\ (pc = "reset" /\ pc' = "recv") =>
          (iter'.kind = "startup" /\ Len(iter'.bus) = 3 /\ IsZeroingWrite(iter'.bus[3]))
    /\ pc' = "recv" => pc \in {"reset", "recv", "tx"}

C37_ZeroingResultIgnored == []C37_ZeroingState /\ [][C37_ZeroingStep]_vars

\* the loop is entered after a zeroing write that failed: the power-on codes stay
C37_Witness ==
    /\ iter.kind = "startup"
    /\ pc = "recv"
    /\ iter.bus[3].st = "HAL_ERROR"
    /\ dac_out = <<100, 200, 300, 400>>
    /\ adc_handle # "NULL"

\* the loop is entered after a zeroing write that succeeded
C37_WitnessZeroed ==
    /\ iter.kind = "startup"
    /\ pc = "recv"
    /\ iter.bus[3].st = "HAL_OK"
    /\ iter.dacBefore = <<100, 200, 300, 400>>
    /\ dac_out = <<0, 0, 0, 0>>

\* the transmits among the events of the last driver call
CallWrites == SelectSeq(call.bus, LAMBDA ev : ev.op = "Master_Transmit")

\* the 12-bit code a uint16_t argument is written as
Masked12(value) == value % 4096

(***************************************************************************)
(* C38.  In the per-channel driver variant MCP4728_SetAllChannels writes   *)
(* the channels one at a time in the order A, B, C, D, each by a 3-byte    *)
(* transmit of its own, stops at the first write that fails and returns    *)
(* the status of that write: the channels before the failing one hold      *)
(* their new values, the failing and the later channels hold what they     *)
(* held before, so the update is not atomic.  (A write that never returns  *)
(* returns no status: the call stays inside it.)                           *)
(***************************************************************************)
C38_PerChannelSetAll ==
    (call.fn = "MCP4728_SetAllChannels" /\ pc \in {"variant", "hung"}) =>
        LET w == CallWrites
            n == Len(w)
            ok == Cardinality({i \in 1..n : w[i].st = "HAL_OK"})
        IN  /\ n \in 1..4
            /\ \A i \in 1..n :
                  /\ w[i].bus = "I2C1" /\ w[i].addr = MCP4728_I2C_ADDR
                  /\ w[i].data = <<64 + 2 * (i - 1), Masked12(call.args[i]) \div 256,
                                   Masked12(call.args[i]) % 256>>
                  /\ call.bus[2 * i - 1] = w[i]
                  /\ i < n => w[i].st = "HAL_OK"
                  /\ w[i].st = "HAL_OK" =>
                        call.bus[2 * i] = HAL_Delay(5, "MCP4728_SetAllChannels")
            /\ Len(call.bus) = n + ok
            /\ n < 4 => w[n].st # "HAL_OK"
            /\ call.status = w[n].st
            /\ pc = "hung" <=> w[n].st = "HANG"
            /\ \A c \in 1..4 :
                  dac_out[c] = IF c <= ok THEN Masked12(call.args[c])
                               ELSE call.dacBefore[c]

\* the write of channel C failed: A and B are new, C and D are as before
C38_Witness ==
    /\ call.fn = "MCP4728_SetAllChannels"
    /\ pc = "variant"
    /\ call.args = <<4095, 2748, 256, 255>>
    /\ call.status = "HAL_TIMEOUT"
    /\ Len(CallWrites) = 3
    /\ call.dacBefore = <<100, 200, 300, 400>>
    /\ dac_out = <<4095, 2748, 300, 400>>

\* all four writes succeeded
C38_WitnessAll ==
    /\ call.fn = "MCP4728_SetAllChannels"
    /\ call.status = "HAL_OK"
    /\ Len(call.bus) = 8
    /\ call.dacBefore = <<100, 200, 300, 400>>
    /\ dac_out = <<4095, 0, 0, 255>>

====
